---------------------------- MODULE Spec2Model ----------------------------
(***************************************************************************)
(* A model of components/config/opts.rs: the command-line resolver        *)
(* (from_cmdline_args), the debug-flag decoder (DebugOptions::extend),    *)
(* the preference coercion (parse_cli_pref_value) and the process-wide    *)
(* store (OPTIONS, MULTIPROCESS, set_options, get, multiprocess).         *)
(*                                                                         *)
(* Strings are sequences of symbols.  A symbol is a one-character string, *)
(* or a longer separator-free piece of text that the code only ever       *)
(* compares as a whole (a debug token, a preference name).  Option<T> is  *)
(* a sequence of length at most one: None is << >>, Some(x) is <<x>>.     *)
(***************************************************************************)
EXTENDS Integers, Sequences, FiniteSets, TLC

VARIABLES
    pc,            \* position of the initial thread
    args,          \* the getopts matches of the running from_cmdline_args call
    user_prefs,    \* the bulk preferences add_user_prefs will load
    debug_options, \* the DebugOptions record being decoded
    locals,        \* the typed locals of from_cmdline_args
    new_opts,      \* the argument of the running set_options call
    ret,           \* where the running set_options call returns to
    wcursor,       \* number of fields the running assignment has copied
    pref_i,        \* number of --pref entries already applied
    status,        \* process status: running, exit0, exit1, panic
    result,        \* the last value returned by from_cmdline_args
    last_call,     \* the last call that returned
    started,       \* from_cmdline_args has been called
    n_set,         \* number of direct set_options calls made
    out,           \* what was written to stdout / stderr
    effects,       \* the store and preference writes, in program order
    OPTIONS,       \* the RwLock-protected Opts
    MULTIPROCESS,  \* the AtomicBool
    lock,          \* RwLock state: writer flag and the set of readers
    prefs,         \* the preference map (prefs::pref_map())
    rd,            \* per reader thread: position and what it has read
    pre,           \* store and preferences when from_cmdline_args was called
    fn_in,         \* input of the pure function under check
    fn_out         \* its output

vars == <<pc, args, user_prefs, debug_options, locals, new_opts, ret, wcursor,
          pref_i, status, result, last_call, started, n_set, out, effects,
          OPTIONS, MULTIPROCESS, lock, prefs, rd, pre, fn_in, fn_out>>

None == << >>
Some(x) == <<x>>
IsSome(o) == Len(o) > 0
Unwrap(o) == o[1]

Ok(v) == [ok |-> TRUE, v |-> v]
Err(e) == [ok |-> FALSE, e |-> e]

-----------------------------------------------------------------------------
(* str::split: the pieces of s between occurrences of the separator.  The *)
(* result always has one more piece than s has separators.                *)

RECURSIVE SplitFrom(_, _, _, _)
SplitFrom(s, sep, i, cur) ==
    IF i > Len(s) THEN <<cur>>
    ELSE IF s[i] = sep THEN <<cur>> \o SplitFrom(s, sep, i + 1, << >>)
    ELSE SplitFrom(s, sep, i + 1, Append(cur, s[i]))

Split(s, sep) == SplitFrom(s, sep, 1, << >>)

(* str::splitn(2, sep): at most two pieces, cut at the first separator.   *)
RECURSIVE FirstIndex(_, _, _)
FirstIndex(s, sep, i) ==
    IF i > Len(s) THEN 0
    ELSE IF s[i] = sep THEN i
    ELSE FirstIndex(s, sep, i + 1)

Splitn2(s, sep) ==
    LET k == FirstIndex(s, sep, 1) IN
    IF k = 0 THEN <<s>>
    ELSE <<SubSeq(s, 1, k - 1), SubSeq(s, k + 1, Len(s))>>

-----------------------------------------------------------------------------
(* DebugOptions                                                            *)

DebugFields ==
    {"help", "bubble_widths", "disable_text_aa", "disable_subpixel_aa",
     "disable_canvas_aa", "dump_style_tree", "dump_rule_tree",
     "dump_flow_tree", "dump_display_list", "dump_display_list_json",
     "relayout_event", "profile_script_events", "profile_heartbeats",
     "show_fragment_borders", "show_parallel_layout", "trace_layout",
     "disable_share_style_cache", "style_sharing_stats",
     "convert_mouse_to_touch", "replace_surrogates", "gc_profile",
     "load_webfonts_synchronously", "disable_vsync", "webrender_stats",
     "webrender_record", "webrender_disable_batch", "use_msaa",
     "full_backtraces", "precache_shaders", "signpost"}

DebugDefault == [f \in DebugFields |-> FALSE]

(* The arms of the match in extend, in order: <<token, field it sets>>.   *)
DebugArms ==
    << <<"help", "help">>,
       <<"bubble-widths", "bubble_widths">>,
       <<"disable-text-aa", "disable_text_aa">>,
       <<"disable-subpixel-aa", "disable_subpixel_aa">>,
       <<"disable-canvas-aa", "disable_text_aa">>,
       <<"dump-style-tree", "dump_style_tree">>,
       <<"dump-rule-tree", "dump_rule_tree">>,
       <<"dump-flow-tree", "dump_flow_tree">>,
       <<"dump-display-list", "dump_display_list">>,
       <<"dump-display-list-json", "dump_display_list_json">>,
       <<"relayout-event", "relayout_event">>,
       <<"profile-script-events", "profile_script_events">>,
       <<"profile-heartbeats", "profile_heartbeats">>,
       <<"show-fragment-borders", "show_fragment_borders">>,
       <<"show-parallel-layout", "show_parallel_layout">>,
       <<"trace-layout", "trace_layout">>,
       <<"disable-share-style-cache", "disable_share_style_cache">>,
       <<"style-sharing-stats", "style_sharing_stats">>,
       <<"convert-mouse-to-touch", "convert_mouse_to_touch">>,
       <<"replace-surrogates", "replace_surrogates">>,
       <<"gc-profile", "gc_profile">>,
       <<"load-webfonts-synchronously", "load_webfonts_synchronously">>,
       <<"disable-vsync", "disable_vsync">>,
       <<"wr-stats", "webrender_stats">>,
       <<"wr-record", "webrender_record">>,
       <<"wr-no-batch", "webrender_disable_batch">>,
       <<"msaa", "use_msaa">>,
       <<"full-backtraces", "full_backtraces">>,
       <<"precache-shaders", "precache_shaders">>,
       <<"signpost", "signpost">> >>

KnownTokens == {DebugArms[i][1] : i \in 1..Len(DebugArms)}

(* The arm a piece of the debug string matches: 0 when none does.         *)
ArmOf(option) ==
    IF Len(option) = 1 /\ option[1] \in KnownTokens
    THEN CHOOSE i \in 1..Len(DebugArms) : DebugArms[i][1] = option[1]
    ELSE 0

(* extend with the loop carrying on behind an unknown token.              *)
RECURSIVE ExtendFromKeepGoing(_, _, _)
ExtendFromKeepGoing(self, pieces, i) ==
    IF i > Len(pieces) THEN [rec |-> self, res |-> Ok(<< >>)]
    ELSE LET option == pieces[i] IN
         IF ArmOf(option) # 0
         THEN ExtendFromKeepGoing(
                  [self EXCEPT ![DebugArms[ArmOf(option)][2]] = TRUE],
                  pieces, i + 1)
         ELSE IF option = << >>
         THEN ExtendFromKeepGoing(self, pieces, i + 1)
         ELSE [rec |-> ExtendFromKeepGoing(self, pieces, i + 1).rec,
               res |-> Err(option)]

(* One iteration of the loop of extend over the pieces, from piece i on.  *)
RECURSIVE ExtendFrom(_, _, _)
ExtendFrom(self, pieces, i) ==
    IF i > Len(pieces) THEN [rec |-> self, res |-> Ok(<< >>)]
    ELSE LET option == pieces[i] IN
         IF ArmOf(option) # 0
         THEN ExtendFrom([self EXCEPT ![DebugArms[ArmOf(option)][2]] = TRUE],
                         pieces, i + 1)
         ELSE IF option = << >>
         THEN ExtendFrom(self, pieces, i + 1)
         ELSE [rec |-> self, res |-> Err(option)]

(* DebugOptions::extend(&mut self, debug_string): the record afterwards   *)
(* and the Result returned.                                                *)
extend(self, debug_string) == ExtendFrom(self, Split(debug_string, ","), 1)

-----------------------------------------------------------------------------
(* core::num FromStr for the integer types: an optional sign (a '-' only  *)
(* for a signed type), then one or more decimal digits, no overflow.      *)
(* The strings of this model are shorter than ten digits; for the types   *)
(* wider than 31 bits the limit passed is the largest number TLC holds,   *)
(* which such strings cannot reach either.                                *)

Digits == {"0", "1", "2", "3", "4", "5", "6", "7", "8", "9"}

DigitVal(c) ==
    CASE c = "0" -> 0 [] c = "1" -> 1 [] c = "2" -> 2 [] c = "3" -> 3
      [] c = "4" -> 4 [] c = "5" -> 5 [] c = "6" -> 6 [] c = "7" -> 7
      [] c = "8" -> 8 [] c = "9" -> 9

AllDigits(s) == \A i \in 1..Len(s) : s[i] \in Digits

RECURSIVE DigitsVal(_)
DigitsVal(s) ==
    IF Len(s) = 0 THEN 0
    ELSE 10 * DigitsVal(SubSeq(s, 1, Len(s) - 1)) + DigitVal(s[Len(s)])

from_str_radix(src, is_signed, max) ==
    IF Len(src) = 0 THEN Err("cannot parse integer from empty string")
    ELSE LET neg  == is_signed /\ src[1] = "-"
             body == IF src[1] = "+" \/ neg THEN Tail(src) ELSE src
         IN IF Len(body) = 0
            THEN Err("cannot parse integer from empty string")
            ELSE IF ~AllDigits(body) THEN Err("invalid digit found in string")
            ELSE IF Len(body) > 9 \/ DigitsVal(body) > max
            THEN Err("number too large to fit in target type")
            ELSE Ok(IF neg THEN 0 - DigitsVal(body) ELSE DigitsVal(body))

parse_i64(s) == from_str_radix(s, TRUE, 2147483647)
parse_usize(s) == from_str_radix(s, FALSE, 2147483647)
parse_u32(s) == from_str_radix(s, FALSE, 2147483647)

(* core::num::dec2flt for f64: sign, then "inf", "NaN" or a decimal       *)
(* (digits, optional point and digits, at least one digit, optional       *)
(* exponent).  A finite value is <<m, e>>, standing for m * 10^e, with m  *)
(* free of trailing zeros.                                                 *)

RECURSIVE EatDigits(_, _)
EatDigits(s, i) ==
    IF i <= Len(s) /\ s[i] \in Digits THEN EatDigits(s, i + 1) ELSE i

RECURSIVE Normal(_, _)
Normal(m, e) ==
    IF m = 0 THEN <<0, 0>>
    ELSE IF m % 10 = 0 THEN Normal(m \div 10, e + 1)
    ELSE <<m, e>>

(* parse_exp: after the 'e', an optional sign and one or more digits.     *)
parse_exp(mant, fraclen, s, i) ==
    LET neg == i <= Len(s) /\ s[i] = "-"
        j   == IF i <= Len(s) /\ s[i] \in {"+", "-"} THEN i + 1 ELSE i
        k   == EatDigits(s, j)
        x   == DigitsVal(SubSeq(s, j, k - 1))
    IN IF k = j \/ k <= Len(s) THEN Err("invalid float literal")
       ELSE Ok(Normal(DigitsVal(mant),
                      (IF neg THEN 0 - x ELSE x) - fraclen))

parse_decimal(s) ==
    LET i == EatDigits(s, 1)
        integral == SubSeq(s, 1, i - 1)
    IN IF Len(s) = 0 THEN Err("invalid float literal")
       ELSE IF i > Len(s) THEN Ok(Normal(DigitsVal(integral), 0))
       ELSE IF s[i] \in {"e", "E"}
       THEN IF Len(integral) = 0 THEN Err("invalid float literal")
            ELSE parse_exp(integral, 0, s, i + 1)
       ELSE IF s[i] = "."
       THEN LET k == EatDigits(s, i + 1)
                fractional == SubSeq(s, i + 1, k - 1)
            IN IF Len(integral) = 0 /\ Len(fractional) = 0
               THEN Err("invalid float literal")
               ELSE IF k > Len(s)
               THEN Ok(Normal(DigitsVal(integral \o fractional),
                              0 - Len(fractional)))
               ELSE IF s[k] \in {"e", "E"}
               THEN parse_exp(integral \o fractional, Len(fractional),
                              s, k + 1)
               ELSE Err("invalid float literal")
       ELSE Err("invalid float literal")

parse_f64(src) ==
    IF Len(src) = 0 THEN Err("cannot parse float from empty string")
    ELSE LET neg == src[1] = "-"
             s   == IF src[1] \in {"+", "-"} THEN Tail(src) ELSE src
             d   == parse_decimal(s)
         IN IF d.ok
            THEN Ok(IF neg THEN <<0 - d.v[1], d.v[2]>> ELSE d.v)
            ELSE IF s = <<"inf">> THEN Ok(IF neg THEN <<"-inf">> ELSE <<"inf">>)
            ELSE IF s = <<"NaN">> THEN Ok(<<"NaN">>)
            ELSE d

-----------------------------------------------------------------------------
(* PrefValue and parse_cli_pref_value                                      *)

PrefBool(b) == [tag |-> "Bool", v |-> <<b>>]
PrefInt(i) == [tag |-> "Int", v |-> <<i>>]
PrefFloat(f) == [tag |-> "Float", v |-> f]
PrefStr(s) == [tag |-> "Str", v |-> s]

StrTrue == <<"t", "r", "u", "e">>
StrFalse == <<"f", "a", "l", "s", "e">>

(* parse_cli_pref_value with the float trial in front of the integer one *)
parse_cli_pref_value_float_first(input) ==
    IF input = None \/ input = Some(StrTrue) THEN PrefBool(TRUE)
    ELSE IF input = Some(StrFalse) THEN PrefBool(FALSE)
    ELSE LET string == Unwrap(input) IN
         IF parse_f64(string).ok THEN PrefFloat(parse_f64(string).v)
         ELSE IF parse_i64(string).ok THEN PrefInt(parse_i64(string).v)
         ELSE PrefStr(string)

parse_cli_pref_value(input) ==
    IF input = None \/ input = Some(StrTrue) THEN PrefBool(TRUE)
    ELSE IF input = Some(StrFalse) THEN PrefBool(FALSE)
    ELSE LET string == Unwrap(input) IN
         IF parse_i64(string).ok THEN PrefInt(parse_i64(string).v)
         ELSE IF parse_f64(string).ok THEN PrefFloat(parse_f64(string).v)
         ELSE PrefStr(string)

-----------------------------------------------------------------------------
(* Opts, default_opts and the store                                        *)

NumReaders == 2
CopyChunk == 16
MaxSetCalls == 2

Readers == 1..NumReaders

(* The fields of Opts, in the order of the struct.                         *)
OptsFields ==
    <<"is_running_problem_test", "url", "tile_size", "device_pixels_per_px",
      "time_profiling", "time_profiler_trace_path", "mem_profiler_period",
      "nonincremental_layout", "userscripts", "user_stylesheets",
      "output_file", "replace_surrogates", "gc_profile",
      "load_webfonts_synchronously", "headless", "angle", "hard_fail",
      "bubble_inline_sizes_separately", "show_debug_fragment_borders",
      "show_debug_parallel_layout", "enable_text_antialiasing",
      "enable_subpixel_text_antialiasing", "enable_canvas_antialiasing",
      "trace_layout", "debugger_port", "devtools_port", "webdriver_port",
      "initial_window_size", "user_agent", "multiprocess",
      "random_pipeline_closure_probability", "random_pipeline_closure_seed",
      "sandbox", "dump_style_tree", "dump_rule_tree", "dump_flow_tree",
      "dump_display_list", "dump_display_list_json", "relayout_event",
      "profile_script_events", "profile_heartbeats",
      "disable_share_style_cache", "style_sharing_stats",
      "convert_mouse_to_touch", "exit_after_load", "no_native_titlebar",
      "enable_vsync", "webrender_stats", "use_msaa", "config_dir",
      "full_backtraces", "is_printing_version", "webrender_record",
      "webrender_batch", "shaders_dir", "precache_shaders", "signpost",
      "certificate_path", "unminify_js", "print_pwm", "clean_shutdown">>

NumFields == Len(OptsFields)

(* The build's DEFAULT_USER_AGENT (neither android nor ios).               *)
DEFAULT_USER_AGENT == "Desktop"

default_user_agent_string(agent) ==
    CASE agent = "Desktop" -> <<"DESKTOP_UA_STRING">>
      [] agent = "Android" ->
           <<"Mozilla/5.0 (Android; Mobile; rv:63.0) Servo/1.0 Firefox/63.0">>
      [] agent = "iOS" ->
           <<"Mozilla/5.0 (iPhone; CPU iPhone OS 8_3 like Mac OS X; rv:63.0) Servo/1.0 Firefox/63.0">>

default_opts ==
    [is_running_problem_test |-> FALSE,
     url |-> None,
     tile_size |-> 512,
     device_pixels_per_px |-> None,
     time_profiling |-> None,
     time_profiler_trace_path |-> None,
     mem_profiler_period |-> None,
     nonincremental_layout |-> FALSE,
     userscripts |-> None,
     user_stylesheets |-> << >>,
     output_file |-> None,
     replace_surrogates |-> FALSE,
     gc_profile |-> FALSE,
     load_webfonts_synchronously |-> FALSE,
     headless |-> FALSE,
     angle |-> FALSE,
     hard_fail |-> TRUE,
     bubble_inline_sizes_separately |-> FALSE,
     show_debug_fragment_borders |-> FALSE,
     show_debug_parallel_layout |-> FALSE,
     enable_text_antialiasing |-> TRUE,
     enable_subpixel_text_antialiasing |-> TRUE,
     enable_canvas_antialiasing |-> TRUE,
     trace_layout |-> FALSE,
     debugger_port |-> None,
     devtools_port |-> None,
     webdriver_port |-> None,
     initial_window_size |-> <<1024, 740>>,
     user_agent |-> default_user_agent_string(DEFAULT_USER_AGENT),
     multiprocess |-> FALSE,
     random_pipeline_closure_probability |-> None,
     random_pipeline_closure_seed |-> None,
     sandbox |-> FALSE,
     dump_style_tree |-> FALSE,
     dump_rule_tree |-> FALSE,
     dump_flow_tree |-> FALSE,
     dump_display_list |-> FALSE,
     dump_display_list_json |-> FALSE,
     relayout_event |-> FALSE,
     profile_script_events |-> FALSE,
     profile_heartbeats |-> FALSE,
     disable_share_style_cache |-> FALSE,
     style_sharing_stats |-> FALSE,
     convert_mouse_to_touch |-> FALSE,
     exit_after_load |-> FALSE,
     no_native_titlebar |-> FALSE,
     enable_vsync |-> TRUE,
     webrender_stats |-> FALSE,
     use_msaa |-> FALSE,
     config_dir |-> None,
     full_backtraces |-> FALSE,
     is_printing_version |-> FALSE,
     webrender_record |-> FALSE,
     webrender_batch |-> TRUE,
     shaders_dir |-> None,
     precache_shaders |-> FALSE,
     signpost |-> FALSE,
     certificate_path |-> None,
     unminify_js |-> FALSE,
     print_pwm |-> FALSE,
     clean_shutdown |-> FALSE]

(* multiprocess(): the load of the AtomicBool.                             *)
multiprocess == MULTIPROCESS

(* The snapshots a test hands to set_options directly.                    *)
TestSnapshots ==
    {[default_opts EXCEPT !.multiprocess = TRUE, !.tile_size = 256,
                          !.clean_shutdown = TRUE],
     [default_opts EXCEPT !.headless = TRUE, !.url = Some(<<"about:blank">>),
                          !.print_pwm = TRUE]}

(* An assignment that leaves the last field of the struct as it was.      *)
CopyFieldsButLast(dst, src, from) ==
    [f \in DOMAIN dst |->
        IF \E i \in (from + 1)..(from + CopyChunk) :
              i < NumFields /\ OptsFields[i] = f
        THEN src[f] ELSE dst[f]]

(* The assignment through the write guard copies the struct in pieces:    *)
(* dst with the fields from+1 .. from+CopyChunk taken from src.           *)
CopyFields(dst, src, from) ==
    [f \in DOMAIN dst |->
        IF \E i \in (from + 1)..(from + CopyChunk) :
              i <= NumFields /\ OptsFields[i] = f
        THEN src[f] ELSE dst[f]]

Min(a, b) == IF a < b THEN a ELSE b

(* RwLock::write: granted when no guard of either kind is out.            *)
CanWrite(l) == ~l.writer /\ l.readers = {}

(* A read lock that is granted while the write guard is out.              *)
CanReadUnlocked(l) == TRUE

(* RwLock::read: granted when no write guard is out.                      *)
CanRead(l) == ~l.writer

PipelineVars == <<args, user_prefs, debug_options, locals, pref_i, status,
                  result, started, out, prefs, pre>>
FnVars == <<fn_in, fn_out>>

(* set_options without the store of the flag.                             *)
SetOptionsNoStore ==
    /\ status = "running" /\ pc = "so_store"
    /\ effects' = Append(effects, "MULTIPROCESS.store")
    /\ pc' = "so_lock"
    /\ UNCHANGED <<PipelineVars, FnVars, new_opts, ret, wcursor, last_call,
                   n_set, OPTIONS, MULTIPROCESS, lock, rd>>

(* set_options, line 1093: the flag is stored before the lock is taken.   *)
SetOptionsStore ==
    /\ status = "running" /\ pc = "so_store"
    /\ MULTIPROCESS' = new_opts.multiprocess
    /\ effects' = Append(effects, "MULTIPROCESS.store")
    /\ pc' = "so_lock"
    /\ UNCHANGED <<PipelineVars, FnVars, new_opts, ret, wcursor, last_call,
                   n_set, OPTIONS, lock, rd>>

(* set_options, line 1094: OPTIONS.write().unwrap()                        *)
SetOptionsLock ==
    /\ status = "running" /\ pc = "so_lock"
    /\ CanWrite(lock)
    /\ lock' = [lock EXCEPT !.writer = TRUE]
    /\ wcursor' = 0
    /\ pc' = "so_write"
    /\ UNCHANGED <<PipelineVars, FnVars, new_opts, ret, last_call, n_set,
                   effects, OPTIONS, MULTIPROCESS, rd>>

(* set_options, line 1094: the assignment *guard = opts                    *)
SetOptionsWrite ==
    /\ status = "running" /\ pc = "so_write"
    /\ wcursor < NumFields
    /\ OPTIONS' = CopyFields(OPTIONS, new_opts, wcursor)
    /\ wcursor' = Min(wcursor + CopyChunk, NumFields)
    /\ UNCHANGED <<PipelineVars, FnVars, pc, new_opts, ret, last_call, n_set,
                   effects, MULTIPROCESS, lock, rd>>

(* set_options, line 1094-1095: the guard is dropped and the call returns  *)
SetOptionsUnlock ==
    /\ status = "running" /\ pc = "so_write"
    /\ wcursor = NumFields
    /\ lock' = [lock EXCEPT !.writer = FALSE]
    /\ effects' = Append(effects, "OPTIONS.write")
    /\ pc' = ret
    /\ last_call' = IF ret = "idle" THEN "set_options" ELSE last_call
    /\ UNCHANGED <<PipelineVars, FnVars, new_opts, ret, wcursor, n_set,
                   OPTIONS, MULTIPROCESS, rd>>

(* get(), line 1099: OPTIONS.read().unwrap(); the reader looks at the     *)
(* Opts behind the guard as soon as it has it.                             *)
Get(r) ==
    /\ status = "running"
    /\ rd[r].pc = "idle"
    /\ CanRead(lock)
    /\ lock' = [lock EXCEPT !.readers = @ \cup {r}]
    /\ rd' = [rd EXCEPT ![r] = [pc |-> "holding", first |-> OPTIONS,
                                 last |-> OPTIONS]]
    /\ UNCHANGED <<PipelineVars, FnVars, pc, new_opts, ret, wcursor,
                   last_call, n_set, effects, OPTIONS, MULTIPROCESS>>

(* The caller uses the view again while it holds the guard.                *)
ReadView(r) ==
    /\ status = "running"
    /\ rd[r].pc = "holding"
    /\ rd' = [rd EXCEPT ![r].last = OPTIONS]
    /\ UNCHANGED <<PipelineVars, FnVars, pc, new_opts, ret, wcursor,
                   last_call, n_set, effects, OPTIONS, MULTIPROCESS, lock>>

(* The RwLockReadGuard is dropped.                                         *)
DropGuard(r) ==
    /\ status = "running"
    /\ rd[r].pc = "holding"
    /\ lock' = [lock EXCEPT !.readers = @ \ {r}]
    /\ rd' = [rd EXCEPT ![r] = [pc |-> "idle", first |-> default_opts,
                                 last |-> default_opts]]
    /\ UNCHANGED <<PipelineVars, FnVars, pc, new_opts, ret, wcursor,
                   last_call, n_set, effects, OPTIONS, MULTIPROCESS>>

-----------------------------------------------------------------------------
(* The flag schema (lines 619-780) and the getopts Matches accessors.     *)
(* Each entry is <<short name, long name, kind>>.  A Matches value maps   *)
(* every long name to its occurrences on the command line, each the       *)
(* Option of the value given with it.                                      *)

Schema ==
    << <<"c", "cpu", "flag">>, <<"g", "gpu", "flag">>,
       <<"o", "output", "opt">>, <<"s", "size", "opt">>,
       <<"", "device-pixel-ratio", "opt">>, <<"p", "profile", "flagopt">>,
       <<"", "profiler-trace-path", "flagopt">>,
       <<"m", "memory-profile", "flagopt">>, <<"x", "exit", "flag">>,
       <<"y", "layout-threads", "opt">>,
       <<"i", "nonincremental-layout", "flag">>,
       <<"", "userscripts", "flagopt">>, <<"", "user-stylesheet", "multi">>,
       <<"", "shaders", "opt">>, <<"z", "headless", "flag">>,
       <<"", "angle", "flag">>, <<"f", "hard-fail", "flag">>,
       <<"F", "soft-fail", "flag">>,
       <<"", "remote-debugging-port", "flagopt">>,
       <<"", "devtools", "flagopt">>, <<"", "webdriver", "flagopt">>,
       <<"", "resolution", "opt">>, <<"u", "user-agent", "opt">>,
       <<"M", "multiprocess", "flag">>, <<"S", "sandbox", "flag">>,
       <<"", "random-pipeline-closure-probability", "opt">>,
       <<"", "random-pipeline-closure-seed", "opt">>,
       <<"Z", "debug", "multi">>, <<"h", "help", "flag">>,
       <<"", "resources-path", "opt">>, <<"", "certificate-path", "opt">>,
       <<"", "content-process", "opt">>, <<"", "pref", "multi">>,
       <<"b", "no-native-titlebar", "flag">>, <<"w", "webrender", "flag">>,
       <<"G", "graphics", "opt">>, <<"", "config-dir", "opt">>,
       <<"", "clean-shutdown", "flag">>, <<"v", "version", "flag">>,
       <<"", "unminify-js", "flag">>, <<"", "profiler-db-user", "opt">>,
       <<"", "profiler-db-pass", "opt">>, <<"", "profiler-db-name", "opt">>,
       <<"", "print-pwm", "flag">> >>

LongNames == {Schema[i][2] : i \in 1..Len(Schema)}

LongName(nm) ==
    Schema[CHOOSE i \in 1..Len(Schema) :
              Schema[i][2] = nm \/ (nm # "" /\ Schema[i][1] = nm)][2]

KindOf(long) == Schema[CHOOSE i \in 1..Len(Schema) : Schema[i][2] = long][3]

opt_vals(m, nm) == m.opts[LongName(nm)]
opt_present(m, nm) == Len(opt_vals(m, nm)) > 0
opt_str(m, nm) ==
    IF Len(opt_vals(m, nm)) > 0 THEN opt_vals(m, nm)[1] ELSE None
opt_default(m, nm, def) ==
    IF Len(opt_vals(m, nm)) = 0 THEN None
    ELSE IF IsSome(opt_vals(m, nm)[1]) THEN opt_vals(m, nm)[1]
    ELSE Some(def)
opt_strs(m, nm) ==
    LET given == SelectSeq(opt_vals(m, nm), IsSome)
    IN [i \in 1..Len(given) |-> Unwrap(given[i])]

(* What Options::parse returns Ok for: at most one occurrence of every    *)
(* option that is not optmulti, a value where the kind demands one.       *)
WellFormed(m) ==
    \A l \in LongNames :
        LET occ == m.opts[l] IN
        /\ KindOf(l) # "multi" => Len(occ) <= 1
        /\ \A i \in 1..Len(occ) :
              /\ KindOf(l) = "flag" => occ[i] = None
              /\ KindOf(l) \in {"opt", "multi"} => IsSome(occ[i])

(* Only the program name: nothing matched, no free argument.               *)
NoArgs == [parse_err |-> None, opts |-> [l \in LongNames |-> << >>],
           free |-> << >>]

With(m, long, occ) == [m EXCEPT !.opts[long] = occ]

Flag == <<None>>
Val(s) == <<Some(s)>>

-----------------------------------------------------------------------------
(* Collaborators outside opts.rs, as far as from_cmdline_args uses them.  *)

(* ServoUrl::parse: a string that starts with a scheme is an absolute     *)
(* URL, unless its host is malformed or, for http, missing; anything      *)
(* else has no base.                                                       *)
Schemes == {"http://", "file://", "about:",
            "http://web-platform.test:8000/_mozilla/mozilla/canvas/"}

ServoUrl_parse(input) ==
    IF Len(input) > 0 /\ input[1] \in Schemes
    THEN IF \E i \in 1..Len(input) : input[i] = "["
         THEN Err("InvalidIpv6Address")
         ELSE IF input = <<"http://">>
         THEN Err("EmptyHost")
         ELSE Ok(input)
    ELSE Err("RelativeUrlWithoutBase")

cwd == <<"/home/servo/">>

(* Path::join: an absolute path replaces the directory it is joined to.   *)
path_join(dir, path) ==
    IF Len(path) > 0 /\ path[1] = "/" THEN path ELSE dir \o path

(* Url::from_file_path fails only for a path that is not absolute.        *)
from_file_path(path) ==
    IF Len(path) > 0 /\ path[1] \in {"/home/servo/", "/"}
    THEN Ok(<<"file://">> \o path) ELSE Err(<< >>)

(* The files File::open and read_to_end succeed on, with their bytes.     *)
ReadableFiles == {<<"user.css">>}
FileBytes(name) == <<"bytes of">> \o name

(* The preference schema: the names pref_map().set accepts.               *)
PrefNames == {"layout.threads", "shell.native_titlebar.enabled",
              "gfx.subpixel_text_antialiasing.enabled",
              "dom.bluetooth.enabled"}

(* pref_map().set(name, value)                                             *)
pref_set(map, name, value) ==
    IF Len(name) = 1 /\ name[1] \in PrefNames
    THEN Ok([map EXCEPT ![name[1]] = value])
    ELSE Err(<<"NoSuchPref">> \o name)

(* pref!(name) for a boolean preference                                    *)
pref_bool(map, name) == map[name].v[1]

(* The preference values before the resolver runs (the built-in defaults  *)
(* of the preference schema).                                              *)
InitialPrefs ==
    {[n \in PrefNames |->
        CASE n = "layout.threads" -> PrefInt(3)
          [] n = "shell.native_titlebar.enabled" -> PrefBool(t)
          [] n = "gfx.subpixel_text_antialiasing.enabled" -> PrefBool(g)
          [] n = "dom.bluetooth.enabled" -> PrefBool(FALSE)] :
     t \in BOOLEAN, g \in BOOLEAN}

(* The user preference files add_user_prefs may find: name -> value.      *)
UserPrefFiles ==
    {<< >>,
     << <<"layout.threads", PrefInt(8)>> >>,
     << <<"dom.bluetooth.enabled", PrefBool(TRUE)>>,
        <<"shell.native_titlebar.enabled", PrefBool(FALSE)>>,
        <<"gfx.subpixel_text_antialiasing.enabled", PrefBool(FALSE)>> >>}

(* add_user_prefs: every entry of the file is written to the map.         *)
RECURSIVE add_user_prefs(_, _, _)
add_user_prefs(map, file, i) ==
    IF i > Len(file) THEN map
    ELSE add_user_prefs([map EXCEPT ![file[i][1]] = file[i][2]], file, i + 1)

-----------------------------------------------------------------------------
(* from_cmdline_args, lines 811-960: the typed locals.  Each is a Result: *)
(* Ok(value), Fail(message) where the code calls args_fail, Panic where   *)
(* it panics.                                                              *)

Fail(msg) == [ok |-> FALSE, how |-> "exit1", e |-> msg]
Panic(msg) == [ok |-> FALSE, how |-> "panic", e |-> msg]

(* opt.map(|s| s.parse().unwrap_or_else(|err| args_fail(label (err))))     *)
MapParse(o, r, label) ==
    IF ~IsSome(o) THEN Ok(None)
    ELSE IF r.ok THEN Ok(Some(r.v))
    ELSE Fail(<<"Error parsing option: ", label, r.e>>)

(* A port parse without the 16-bit limit.                                  *)
parse_u16_wide(s) == from_str_radix(s, FALSE, 2147483647)

parse_u16(s) == from_str_radix(s, FALSE, 65535)

ProblemTestPrefixes ==
    {"http://web-platform.test:8000/2dcontext/drawing-images-to-the-canvas/",
     "http://web-platform.test:8000/_mozilla/mozilla/canvas/",
     "http://web-platform.test:8000/_mozilla/css/canvas_over_area.html"}

(* parse_url_or_filename without the file URL for a relative input.       *)
parse_url_or_filename_no_file(dir, input) ==
    LET r == ServoUrl_parse(input) IN
    IF r.ok THEN r ELSE Err(<< >>)

(* parse_url_or_filename, lines 1127-1135                                  *)
parse_url_or_filename(dir, input) ==
    LET r == ServoUrl_parse(input) IN
    IF r.ok THEN r
    ELSE IF r.e = "RelativeUrlWithoutBase" THEN from_file_path(path_join(dir, input))
    ELSE Err(<< >>)

(* lines 812-816 *)
free_url(m) == IF Len(m.free) > 0 THEN Some(m.free[1]) ELSE None

(* lines 817-821 *)
is_running_problem_test(m) ==
    /\ IsSome(free_url(m))
    /\ Len(Unwrap(free_url(m))) > 0
    /\ Unwrap(free_url(m))[1] \in ProblemTestPrefixes

(* lines 823-830 *)
url_opt(m) ==
    IF IsSome(free_url(m)) /\ parse_url_or_filename(cwd, Unwrap(free_url(m))).ok
    THEN Some(parse_url_or_filename(cwd, Unwrap(free_url(m))).v)
    ELSE None

url_warning(m) ==
    IsSome(free_url(m)) /\ ~parse_url_or_filename(cwd, Unwrap(free_url(m))).ok

(* lines 832-837 *)
tile_size(m) ==
    LET o == opt_str(m, "s") IN
    IF IsSome(o)
    THEN IF parse_usize(Unwrap(o)).ok THEN Ok(parse_usize(Unwrap(o)).v)
         ELSE Fail(<<"Error parsing option: ", "-s", parse_usize(Unwrap(o)).e>>)
    ELSE Ok(512)

(* lines 839-846 *)
device_pixels_per_px(m) ==
    LET o == opt_str(m, "device-pixel-ratio") IN
    MapParse(o, IF IsSome(o) THEN parse_f64(Unwrap(o)) ELSE Ok(0),
             "--device-pixel-ratio")

(* The profiler routing without the URL trial.                            *)
time_profiling_no_url(m) ==
    IF opt_present(m, "p")
    THEN LET o == opt_str(m, "p") IN
         IF IsSome(o)
         THEN LET argument == Unwrap(o) IN
              IF parse_f64(argument).ok
              THEN Some([tag |-> "Stdout", v |-> parse_f64(argument).v])
              ELSE Some([tag |-> "FileName", v |-> argument])
         ELSE Some([tag |-> "Stdout", v |-> <<5, 0>>])
    ELSE None

(* lines 849-868 *)
time_profiling(m) ==
    IF opt_present(m, "p")
    THEN LET o == opt_str(m, "p") IN
         IF IsSome(o)
         THEN LET argument == Unwrap(o) IN
              IF parse_f64(argument).ok
              THEN Some([tag |-> "Stdout", v |-> parse_f64(argument).v])
              ELSE IF ServoUrl_parse(argument).ok
              THEN Some([tag |-> "DB",
                         v |-> <<ServoUrl_parse(argument).v,
                                 opt_str(m, "profiler-db-name"),
                                 opt_str(m, "profiler-db-user"),
                                 opt_str(m, "profiler-db-pass")>>])
              ELSE Some([tag |-> "FileName", v |-> argument])
         ELSE Some([tag |-> "Stdout", v |-> <<5, 0>>])
    ELSE None

(* lines 882-886 *)
mem_profiler_period(m) ==
    LET o == opt_default(m, "m", <<"5">>) IN
    MapParse(o, IF IsSome(o) THEN parse_f64(Unwrap(o)) ELSE Ok(0), "-m")

(* lines 888-892 *)
layout_threads(m) ==
    LET o == opt_str(m, "y") IN
    MapParse(o, IF IsSome(o) THEN parse_usize(Unwrap(o)) ELSE Ok(0), "-y")

(* lines 896-905 *)
random_pipeline_closure_probability(m) ==
    LET o == opt_str(m, "random-pipeline-closure-probability") IN
    MapParse(o, IF IsSome(o) THEN parse_f64(Unwrap(o)) ELSE Ok(0),
             "--random-pipeline-closure-probability")

(* lines 907-917 *)
random_pipeline_closure_seed(m) ==
    LET o == opt_str(m, "random-pipeline-closure-seed") IN
    MapParse(o, IF IsSome(o) THEN parse_usize(Unwrap(o)) ELSE Ok(0),
             "--random-pipeline-closure-seed")

(* lines 925-934 *)
debugger_port(m) ==
    LET o == opt_default(m, "remote-debugging-port", <<"2", "7", "9", "4">>) IN
    MapParse(o, IF IsSome(o) THEN parse_u16(Unwrap(o)) ELSE Ok(0),
             "--remote-debugging-port")

(* lines 936-939 *)
devtools_port(m) ==
    LET o == opt_default(m, "devtools", <<"6", "0", "0", "0">>) IN
    MapParse(o, IF IsSome(o) THEN parse_u16(Unwrap(o)) ELSE Ok(0),
             "--devtools")

(* lines 941-945 *)
webdriver_port(m) ==
    LET o == opt_default(m, "webdriver", <<"7", "0", "0", "0">>) IN
    MapParse(o, IF IsSome(o) THEN parse_u16(Unwrap(o)) ELSE Ok(0),
             "--webdriver")

(* lines 947-960: every piece between the 'x's is parsed in turn, then    *)
(* the first two numbers are indexed.                                      *)
initial_window_size(m) ==
    LET o == opt_str(m, "resolution") IN
    IF IsSome(o)
    THEN LET pieces == Split(Unwrap(o), "x")
             bad == {i \in 1..Len(pieces) : ~parse_u32(pieces[i]).ok}
             res == [i \in 1..Len(pieces) |-> parse_u32(pieces[i]).v]
         IN IF bad # {}
            THEN Fail(<<"Error parsing option: ", "--resolution",
                        parse_u32(pieces[CHOOSE i \in bad :
                                            \A j \in bad : i <= j]).e>>)
            ELSE IF Len(res) < 2
            THEN Panic(<<"index out of bounds">>)
            ELSE Ok(<<res[1], res[2]>>)
    ELSE Ok(<<1024, 740>>)

(* The fallible locals in the order the code computes them.               *)
ScalarOrder ==
    <<"tile_size", "device_pixels_per_px", "mem_profiler_period",
      "layout_threads", "random_pipeline_closure_probability",
      "random_pipeline_closure_seed", "debugger_port", "devtools_port",
      "webdriver_port", "initial_window_size">>

Scalar(m, name) ==
    CASE name = "tile_size" -> tile_size(m)
      [] name = "device_pixels_per_px" -> device_pixels_per_px(m)
      [] name = "mem_profiler_period" -> mem_profiler_period(m)
      [] name = "layout_threads" -> layout_threads(m)
      [] name = "random_pipeline_closure_probability" ->
             random_pipeline_closure_probability(m)
      [] name = "random_pipeline_closure_seed" ->
             random_pipeline_closure_seed(m)
      [] name = "debugger_port" -> debugger_port(m)
      [] name = "devtools_port" -> devtools_port(m)
      [] name = "webdriver_port" -> webdriver_port(m)
      [] name = "initial_window_size" -> initial_window_size(m)

(* The first local whose computation does not return: 0 when all do.      *)
FirstFailure(m) ==
    LET bad == {i \in 1..Len(ScalarOrder) : ~Scalar(m, ScalarOrder[i]).ok}
    IN IF bad = {} THEN 0 ELSE CHOOSE i \in bad : \A j \in bad : i <= j

NoLocals ==
    [url_opt |-> None, is_running_problem_test |-> FALSE,
     time_profiling |-> None, nonincremental_layout |-> FALSE,
     bubble_inline_sizes_separately |-> FALSE,
     tile_size |-> 0, device_pixels_per_px |-> None,
     mem_profiler_period |-> None, layout_threads |-> None,
     random_pipeline_closure_probability |-> None,
     random_pipeline_closure_seed |-> None, debugger_port |-> None,
     devtools_port |-> None, webdriver_port |-> None,
     initial_window_size |-> <<0, 0>>]

(* The locals without the override of lines 920-923.                      *)
ResolvedLocalsNoTrace(m, dbg) ==
    [url_opt |-> url_opt(m),
     is_running_problem_test |-> is_running_problem_test(m),
     time_profiling |-> time_profiling(m),
     nonincremental_layout |-> opt_present(m, "i"),
     bubble_inline_sizes_separately |-> dbg.bubble_widths,
     tile_size |-> tile_size(m).v,
     device_pixels_per_px |-> device_pixels_per_px(m).v,
     mem_profiler_period |-> mem_profiler_period(m).v,
     layout_threads |-> layout_threads(m).v,
     random_pipeline_closure_probability |->
        random_pipeline_closure_probability(m).v,
     random_pipeline_closure_seed |-> random_pipeline_closure_seed(m).v,
     debugger_port |-> debugger_port(m).v,
     devtools_port |-> devtools_port(m).v,
     webdriver_port |-> webdriver_port(m).v,
     initial_window_size |-> initial_window_size(m).v]

(* lines 811-960 when every parse succeeds; lines 919-923 let             *)
(* trace-layout override the thread count and the bubbling.               *)
ResolvedLocals(m, dbg) ==
    [url_opt |-> url_opt(m),
     is_running_problem_test |-> is_running_problem_test(m),
     time_profiling |-> time_profiling(m),
     nonincremental_layout |-> opt_present(m, "i"),
     bubble_inline_sizes_separately |->
        IF dbg.trace_layout THEN TRUE ELSE dbg.bubble_widths,
     tile_size |-> tile_size(m).v,
     device_pixels_per_px |-> device_pixels_per_px(m).v,
     mem_profiler_period |-> mem_profiler_period(m).v,
     layout_threads |->
        IF dbg.trace_layout THEN Some(1) ELSE layout_threads(m).v,
     random_pipeline_closure_probability |->
        random_pipeline_closure_probability(m).v,
     random_pipeline_closure_seed |-> random_pipeline_closure_seed(m).v,
     debugger_port |-> debugger_port(m).v,
     devtools_port |-> devtools_port(m).v,
     webdriver_port |-> webdriver_port(m).v,
     initial_window_size |-> initial_window_size(m).v]

-----------------------------------------------------------------------------
(* from_cmdline_args, lines 966-1059                                       *)

(* lines 966-972 *)
user_agent(m) ==
    LET o == opt_str(m, "u") IN
    IF o = Some(<<"ios">>) THEN default_user_agent_string("iOS")
    ELSE IF o = Some(<<"android">>) THEN default_user_agent_string("Android")
    ELSE IF o = Some(<<"desktop">>) THEN default_user_agent_string("Desktop")
    ELSE IF IsSome(o) THEN Unwrap(o)
    ELSE default_user_agent_string(DEFAULT_USER_AGENT)

(* lines 974-987: the first file that cannot be opened ends the process.  *)
user_stylesheets(m) ==
    LET names == opt_strs(m, "user-stylesheet")
        bad == {i \in 1..Len(names) : names[i] \notin ReadableFiles}
    IN IF bad # {}
       THEN Fail(<<"Couldn't open ">>
                 \o names[CHOOSE i \in bad : \A j \in bad : i <= j])
       ELSE Ok([i \in 1..Len(names) |->
                  <<FileBytes(names[i]),
                    from_file_path(path_join(cwd, names[i])).v>>])

(* The titlebar field taken from the flag alone.                           *)
do_not_use_native_titlebar_flag_only(m, map) == opt_present(m, "b")

(* lines 989-990 *)
do_not_use_native_titlebar(m, map) ==
    opt_present(m, "b") \/ ~pref_bool(map, "shell.native_titlebar.enabled")

(* lines 992-993 *)
enable_subpixel_text_antialiasing(dbg, map) ==
    ~dbg.disable_subpixel_aa
        /\ pref_bool(map, "gfx.subpixel_text_antialiasing.enabled")

(* lines 997-1059: the Opts literal                                        *)
AssembleOpts(m, dbg, l, map) ==
    [is_running_problem_test |-> l.is_running_problem_test,
     url |-> l.url_opt,
     tile_size |-> l.tile_size,
     device_pixels_per_px |-> l.device_pixels_per_px,
     time_profiling |-> l.time_profiling,
     time_profiler_trace_path |-> opt_str(m, "profiler-trace-path"),
     mem_profiler_period |-> l.mem_profiler_period,
     nonincremental_layout |-> l.nonincremental_layout,
     userscripts |-> opt_default(m, "userscripts", << >>),
     user_stylesheets |-> user_stylesheets(m).v,
     output_file |-> opt_str(m, "o"),
     replace_surrogates |-> dbg.replace_surrogates,
     gc_profile |-> dbg.gc_profile,
     load_webfonts_synchronously |-> dbg.load_webfonts_synchronously,
     headless |-> opt_present(m, "z"),
     angle |-> opt_present(m, "angle"),
     hard_fail |-> opt_present(m, "f") /\ ~opt_present(m, "F"),
     bubble_inline_sizes_separately |-> l.bubble_inline_sizes_separately,
     profile_script_events |-> dbg.profile_script_events,
     profile_heartbeats |-> dbg.profile_heartbeats,
     trace_layout |-> dbg.trace_layout,
     debugger_port |-> l.debugger_port,
     devtools_port |-> l.devtools_port,
     webdriver_port |-> l.webdriver_port,
     initial_window_size |-> l.initial_window_size,
     user_agent |-> user_agent(m),
     multiprocess |-> opt_present(m, "M"),
     sandbox |-> opt_present(m, "S"),
     random_pipeline_closure_probability |->
        l.random_pipeline_closure_probability,
     random_pipeline_closure_seed |-> l.random_pipeline_closure_seed,
     show_debug_fragment_borders |-> dbg.show_fragment_borders,
     show_debug_parallel_layout |-> dbg.show_parallel_layout,
     enable_text_antialiasing |-> ~dbg.disable_text_aa,
     enable_subpixel_text_antialiasing |->
        enable_subpixel_text_antialiasing(dbg, map),
     enable_canvas_antialiasing |-> ~dbg.disable_canvas_aa,
     dump_style_tree |-> dbg.dump_style_tree,
     dump_rule_tree |-> dbg.dump_rule_tree,
     dump_flow_tree |-> dbg.dump_flow_tree,
     dump_display_list |-> dbg.dump_display_list,
     dump_display_list_json |-> dbg.dump_display_list_json,
     relayout_event |-> dbg.relayout_event,
     disable_share_style_cache |-> dbg.disable_share_style_cache,
     style_sharing_stats |-> dbg.style_sharing_stats,
     convert_mouse_to_touch |-> dbg.convert_mouse_to_touch,
     exit_after_load |-> opt_present(m, "x"),
     no_native_titlebar |-> do_not_use_native_titlebar(m, map),
     enable_vsync |-> ~dbg.disable_vsync,
     webrender_stats |-> dbg.webrender_stats,
     use_msaa |-> dbg.use_msaa,
     config_dir |-> opt_str(m, "config-dir"),
     full_backtraces |-> dbg.full_backtraces,
     is_printing_version |->
        opt_present(m, "v") \/ opt_present(m, "version"),
     webrender_record |-> dbg.webrender_record,
     webrender_batch |-> ~dbg.webrender_disable_batch,
     shaders_dir |-> opt_str(m, "shaders"),
     precache_shaders |-> dbg.precache_shaders,
     signpost |-> dbg.signpost,
     certificate_path |-> opt_str(m, "certificate-path"),
     unminify_js |-> opt_present(m, "unminify-js"),
     print_pwm |-> opt_present(m, "print-pwm"),
     clean_shutdown |-> opt_present(m, "clean-shutdown")]

(* parse_pref_from_command_line, lines 1102-1109: the map afterwards, or  *)
(* the error that expect() panics with.                                    *)
parse_pref_from_command_line(map, pref) ==
    LET split == Splitn2(pref, "=")
        pref_name == split[1]
        pref_value == parse_cli_pref_value(
                          IF Len(split) >= 2 THEN Some(split[2]) ELSE None)
    IN pref_set(map, pref_name, pref_value)

(* The debug strings of -Z folded into the record, lines 799-805: the     *)
(* record and the first error.                                             *)
RECURSIVE ExtendAll(_, _, _)
ExtendAll(dbg, strs, i) ==
    IF i > Len(strs) THEN [rec |-> dbg, res |-> Ok(<< >>)]
    ELSE LET r == extend(dbg, strs[i]) IN
         IF r.res.ok THEN ExtendAll(r.rec, strs, i + 1) ELSE r

-----------------------------------------------------------------------------
(* The argument vectors the model runs from_cmdline_args on.               *)

MaxResLen == 3
MaxPrefs == 2

RECURSIVE SeqsUpTo(_, _)
SeqsUpTo(S, n) ==
    IF n = 0 THEN {<< >>}
    ELSE LET shorter == SeqsUpTo(S, n - 1)
         IN shorter \cup {Append(q, x) : q \in shorter, x \in S}

ChannelId == <<"servo-ipc-channel.abcdefg">>

(* help, content-process, -Z, -s, --pref and -M in every combination       *)
ShortCircuitArgs ==
    {[NoArgs EXCEPT !.opts["help"] = h, !.opts["content-process"] = c,
                    !.opts["debug"] = z, !.opts["size"] = sz,
                    !.opts["pref"] = p, !.opts["multiprocess"] = mp] :
        h \in {<< >>, Flag},
        c \in {<< >>, Val(ChannelId)},
        z \in {<< >>, Val(<<"msaa", ",", "disable-canvas-aa">>),
               Val(<<"bogus">>), Val(<<"gc-profile", ",", "help">>)},
        sz \in {<< >>, Val(<<"6", "4">>), Val(<<"a">>)},
        p \in {<< >>, Val(<<"no.such.pref", "=", "1">>)},
        mp \in {<< >>, Flag}}

ResolutionStrings ==
    SeqsUpTo({"8", "x", "a"}, MaxResLen)
        \cup {<<"1", "2", "8", "0", "x", "8", "0", "0">>, <<"8", "0", "0">>}

(* --resolution with -f and -F                                             *)
ResolutionArgs ==
    {[NoArgs EXCEPT !.opts["resolution"] = r, !.opts["hard-fail"] = f,
                    !.opts["soft-fail"] = sf] :
        r \in {<< >>} \cup {Val(x) : x \in ResolutionStrings},
        f \in {<< >>, Flag}, sf \in {<< >>, Flag}}

PrefStrings ==
    {<<"layout.threads", "=", "4">>,
     <<"layout.threads", "=", "2">>,
     <<"dom.bluetooth.enabled">>,
     <<"shell.native_titlebar.enabled", "=", "f", "a", "l", "s", "e">>,
     <<"no.such.pref">>}

(* --pref entries with -y and -Z                                           *)
PrefArgs ==
    {[NoArgs EXCEPT !.opts["pref"] = [i \in 1..Len(ps) |-> Some(ps[i])],
                    !.opts["layout-threads"] = y,
                    !.opts["debug"] = z] :
        ps \in SeqsUpTo(PrefStrings, MaxPrefs),
        y \in {<< >>, Val(<<"2">>), Val(<<"x">>)},
        z \in {<< >>, Val(<<"trace-layout">>),
               Val(<<"bubble-widths", ",">>),
               Val(<<"bubble-widths", ",", "trace-layout">>)}}

ProfilerValues ==
    {<<"5">>, <<"1", "0">>, <<"0", ".", "5">>, <<"1", "e", "3">>, <<"inf">>,
     <<"http://", "localhost:8086">>, <<"http://", "[">>,
     <<"trace.txt">>, <<"5", "s">>}

(* -p with the three credential flags                                      *)
ProfilerArgs ==
    {[NoArgs EXCEPT !.opts["profile"] = pv,
                    !.opts["profiler-db-name"] = n,
                    !.opts["profiler-db-user"] = u,
                    !.opts["profiler-db-pass"] = pw] :
        pv \in {<< >>, Flag} \cup {Val(x) : x \in ProfilerValues},
        n \in {<< >>, Val(<<"servo">>)},
        u \in {<< >>, Val(<<"me">>)},
        pw \in {<< >>, Val(<<"secret">>)}}

(* --user-stylesheet, readable and not, with -M and -s                     *)
StylesheetArgs ==
    {[NoArgs EXCEPT !.opts["user-stylesheet"] =
                        [i \in 1..Len(fs) |-> Some(fs[i])],
                    !.opts["multiprocess"] = mp,
                    !.opts["size"] = sz] :
        fs \in {<< <<"user.css">> >>, << <<"missing.css">> >>,
                << <<"user.css">>, <<"missing.css">> >>},
        mp \in {<< >>, Flag},
        sz \in {<< >>, Val(<<"a">>)}}

PortValues ==
    {<<"8", "0">>, <<"+", "8", "0">>, <<"6", "5", "5", "3", "5">>,
     <<"6", "5", "5", "3", "6">>, <<"-", "1">>, <<"x">>}

(* the three port flags: absent, bare, and with a value                    *)
PortArgs ==
    {[NoArgs EXCEPT !.opts["remote-debugging-port"] = d,
                    !.opts["devtools"] = t,
                    !.opts["webdriver"] = w] :
        d \in {<< >>, Flag} \cup {Val(x) : x \in PortValues},
        t \in {<< >>, Flag, Val(<<"8", "0">>), Val(<<"x">>)},
        w \in {<< >>, Flag, Val(<<"6", "5", "5", "3", "5">>),
               Val(<<"6", "5", "5", "3", "6">>)}}

PresenceFlagNames ==
    {"headless", "multiprocess", "sandbox", "exit", "no-native-titlebar",
     "unminify-js", "print-pwm", "clean-shutdown"}

(* every combination of the presence flags                                 *)
PresenceArgs ==
    {[NoArgs EXCEPT !.opts = [l \in LongNames |->
                                 IF l \in on THEN Flag ELSE << >>]] :
        on \in SUBSET PresenceFlagNames}

FreeUrls ==
    {<<"http://", "servo.org/">>, <<"about:", "blank">>,
     <<"http://web-platform.test:8000/_mozilla/mozilla/canvas/", "a.html">>,
     <<"index.html">>, <<"/", "tmp", "/", "a.html">>, << >>,
     <<"http://", "[", ":", ":", "1">>, <<"http://">>}

(* a positional URL, with -z and -s                                        *)
UrlArgs ==
    {[NoArgs EXCEPT !.free = <<u>>, !.opts["headless"] = z,
                    !.opts["size"] = sz] :
        u \in FreeUrls, z \in {<< >>, Flag},
        sz \in {<< >>, Val(<<"6", "4">>), Val(<<"a">>)}}

TitlebarPrefStrings ==
    {<<"shell.native_titlebar.enabled", "=", "f", "a", "l", "s", "e">>,
     <<"shell.native_titlebar.enabled">>}

SubpixelPrefStrings ==
    {<<"gfx.subpixel_text_antialiasing.enabled", "=", "f", "a", "l", "s", "e">>,
     <<"gfx.subpixel_text_antialiasing.enabled">>}

(* --pref entries for the two preferences the snapshot reads (lines       *)
(* 989-993), with -b and -Z disable-subpixel-aa                           *)
SnapshotPrefArgs ==
    {[NoArgs EXCEPT !.opts["pref"] = [i \in 1..Len(ps) |-> Some(ps[i])],
                    !.opts["no-native-titlebar"] = b,
                    !.opts["debug"] = z] :
        ps \in {<<t>> : t \in TitlebarPrefStrings}
                 \cup {<<g>> : g \in SubpixelPrefStrings}
                 \cup {<<t, g>> : t \in TitlebarPrefStrings,
                                   g \in SubpixelPrefStrings}
                 \cup {<<t, u>> : t \in TitlebarPrefStrings,
                                   u \in TitlebarPrefStrings},
        b \in {<< >>, Flag},
        z \in {<< >>, Val(<<"disable-subpixel-aa">>)}}

(* an argument vector Options::parse rejects                               *)
RejectedArgs ==
    {[NoArgs EXCEPT !.parse_err = Some(<<"Unrecognized option: 'bogus'">>)]}

ArgVectors == ShortCircuitArgs \cup ResolutionArgs \cup PrefArgs
                  \cup RejectedArgs \cup ProfilerArgs \cup StylesheetArgs
                  \cup PortArgs \cup PresenceArgs \cup UrlArgs
                  \cup SnapshotPrefArgs

-----------------------------------------------------------------------------
(* The initial thread                                                      *)

IdleReader == [pc |-> "idle", first |-> default_opts, last |-> default_opts]

Init ==
    /\ pc = "idle"
    /\ args = NoArgs
    /\ user_prefs = << >>
    /\ debug_options = DebugDefault
    /\ locals = NoLocals
    /\ new_opts = default_opts
    /\ ret = "idle"
    /\ wcursor = 0
    /\ pref_i = 0
    /\ status = "running"
    /\ result = None
    /\ last_call = "none"
    /\ started = FALSE
    /\ n_set = 0
    /\ out = << >>
    /\ effects = << >>
    /\ OPTIONS = default_opts
    /\ MULTIPROCESS = FALSE
    /\ lock = [writer |-> FALSE, readers |-> {}]
    /\ prefs \in InitialPrefs
    /\ rd = [r \in Readers |-> IdleReader]
    /\ pre = [OPTIONS |-> default_opts, MULTIPROCESS |-> FALSE,
              prefs |-> prefs]
    /\ fn_in = None
    /\ fn_out = None

StoreVars == <<OPTIONS, MULTIPROCESS, lock, rd>>
CallVars == <<new_opts, ret, wcursor, n_set>>

(* args_fail, lines 493-496 *)
args_fail(msg) ==
    /\ out' = Append(out, <<"stderr", msg>>)
    /\ status' = "exit1"

(* a panic of the initial thread *)
panic(msg) ==
    /\ out' = Append(out, <<"stderr", <<"thread 'main' panicked">> \o msg>>)
    /\ status' = "panic"

(* from_cmdline_args is entered, line 616 *)
CallFromCmdlineArgs ==
    /\ status = "running" /\ pc = "idle"
    /\ ~started /\ n_set = 0
    /\ \E a \in ArgVectors :
          /\ a.parse_err = None => WellFormed(a)
          /\ args' = a
    /\ started' = TRUE
    /\ pre' = [OPTIONS |-> OPTIONS, MULTIPROCESS |-> MULTIPROCESS,
               prefs |-> prefs]
    /\ effects' = << >>
    /\ pc' = "parse"
    /\ UNCHANGED <<user_prefs, debug_options, locals, pref_i, status, result,
                   last_call, out, prefs, StoreVars, CallVars, FnVars>>

(* lines 782-785 *)
Parse ==
    /\ status = "running" /\ pc = "parse"
    /\ IF IsSome(args.parse_err)
       THEN args_fail(Unwrap(args.parse_err)) /\ pc' = pc
       ELSE pc' = "help" /\ UNCHANGED <<out, status>>
    /\ UNCHANGED <<args, user_prefs, debug_options, locals, pref_i, result,
                   last_call, started, effects, prefs, pre, StoreVars,
                   CallVars, FnVars>>

(* The help test placed behind the content-process test.                  *)
HelpAfterContentProcess ==
    /\ status = "running" /\ pc = "help"
    /\ IF IsSome(opt_str(args, "content-process"))
       THEN pc' = "content_process" /\ UNCHANGED <<out, status>>
       ELSE IF opt_present(args, "h") \/ opt_present(args, "help")
       THEN /\ out' = Append(out, <<"stdout", <<"print_usage">>>>)
            /\ status' = "exit0"
            /\ pc' = pc
       ELSE pc' = "content_process" /\ UNCHANGED <<out, status>>
    /\ UNCHANGED <<args, user_prefs, debug_options, locals, pref_i, result,
                   last_call, started, effects, prefs, pre, StoreVars,
                   CallVars, FnVars>>

(* lines 787-790 *)
Help ==
    /\ status = "running" /\ pc = "help"
    /\ IF opt_present(args, "h") \/ opt_present(args, "help")
       THEN /\ out' = Append(out, <<"stdout", <<"print_usage">>>>)
            /\ status' = "exit0"
            /\ pc' = pc
       ELSE pc' = "content_process" /\ UNCHANGED <<out, status>>
    /\ UNCHANGED <<args, user_prefs, debug_options, locals, pref_i, result,
                   last_call, started, effects, prefs, pre, StoreVars,
                   CallVars, FnVars>>

(* The content-process return without the store of the flag.              *)
ContentProcessNoStore ==
    /\ status = "running" /\ pc = "content_process"
    /\ IF IsSome(opt_str(args, "content-process"))
       THEN /\ result' = Some(<<"ContentProcess",
                                Unwrap(opt_str(args, "content-process"))>>)
            /\ last_call' = "from_cmdline_args"
            /\ pc' = "idle"
       ELSE /\ pc' = "debug"
            /\ UNCHANGED <<result, last_call>>
    /\ UNCHANGED <<args, user_prefs, debug_options, locals, pref_i, status,
                   started, out, prefs, pre, OPTIONS, MULTIPROCESS, effects,
                   lock, rd, CallVars, FnVars>>

(* lines 794-797 *)
ContentProcess ==
    /\ status = "running" /\ pc = "content_process"
    /\ IF IsSome(opt_str(args, "content-process"))
       THEN /\ MULTIPROCESS' = TRUE
            /\ effects' = Append(effects, "MULTIPROCESS.store")
            /\ result' = Some(<<"ContentProcess",
                                Unwrap(opt_str(args, "content-process"))>>)
            /\ last_call' = "from_cmdline_args"
            /\ pc' = "idle"
       ELSE /\ pc' = "debug"
            /\ UNCHANGED <<MULTIPROCESS, effects, result, last_call>>
    /\ UNCHANGED <<args, user_prefs, debug_options, locals, pref_i, status,
                   started, out, prefs, pre, OPTIONS, lock, rd, CallVars,
                   FnVars>>

(* print_debug_usage, lines 387-483: the names it prints, in order.       *)
DebugUsageListing ==
    <<"bubble-widths", "disable-text-aa", "disable-canvas-aa",
      "dump-style-tree", "dump-flow-tree", "dump-display-list",
      "dump-display-list-json", "relayout-event", "profile-script-events",
      "profile-heartbeats", "show-fragment-borders", "show-parallel-layout",
      "trace-layout", "disable-share-style-cache",
      "parallel-display-list-building", "convert-mouse-to-touch",
      "replace-surrogates", "gc-profile", "load-webfonts-synchronously",
      "disable-vsync", "wr-stats", "msaa", "full-backtraces", "wr-debug",
      "wr-no-batch", "precache-shaders", "signpost">>

print_debug_usage == <<"Usage: debug option,[options,...]">> \o DebugUsageListing

(* lines 799-809 *)
DecodeDebug ==
    /\ status = "running" /\ pc = "debug"
    /\ LET r == ExtendAll(DebugDefault, opt_strs(args, "Z"), 1) IN
       /\ debug_options' = r.rec
       /\ IF ~r.res.ok
          THEN /\ args_fail(<<"error: unrecognized debug option: ">>
                            \o r.res.e)
               /\ pc' = pc
          ELSE IF r.rec.help
          THEN /\ out' = Append(out, <<"stdout", print_debug_usage>>)
               /\ status' = "exit0"
               /\ pc' = pc
          ELSE pc' = "locals" /\ UNCHANGED <<out, status>>
    /\ UNCHANGED <<args, user_prefs, locals, pref_i, result, last_call,
                   started, effects, prefs, pre, StoreVars, CallVars, FnVars>>

(* lines 811-960 *)
ResolveLocals ==
    /\ status = "running" /\ pc = "locals"
    /\ LET k == FirstFailure(args)
           warned == IF url_warning(args)
                     THEN Append(out, <<"log", <<"URL parsing failed">>>>)
                     ELSE out
       IN IF k # 0
          THEN /\ out' = Append(warned,
                          <<"stderr", Scalar(args, ScalarOrder[k]).e>>)
               /\ status' = Scalar(args, ScalarOrder[k]).how
               /\ pc' = pc
               /\ UNCHANGED locals
          ELSE /\ locals' = ResolvedLocals(args, debug_options)
               /\ out' = warned
               /\ pc' = "store_flag"
               /\ UNCHANGED status
    /\ UNCHANGED <<args, user_prefs, debug_options, pref_i, result, last_call,
                   started, effects, prefs, pre, StoreVars, CallVars, FnVars>>

(* lines 962-964 *)
StoreFlag ==
    /\ status = "running" /\ pc = "store_flag"
    /\ IF opt_present(args, "M")
       THEN /\ MULTIPROCESS' = TRUE
            /\ effects' = Append(effects, "MULTIPROCESS.store")
       ELSE UNCHANGED <<MULTIPROCESS, effects>>
    /\ pc' = "assemble"
    /\ UNCHANGED <<args, user_prefs, debug_options, locals, pref_i, status,
                   result, last_call, started, out, prefs, pre, OPTIONS, lock,
                   rd, CallVars, FnVars>>

(* The preference map after the bulk preferences and every --pref entry   *)
(* that names a preference.                                                *)
RECURSIVE OverridesApplied(_, _, _)
OverridesApplied(map, ps, i) ==
    IF i > Len(ps) THEN map
    ELSE LET r == parse_pref_from_command_line(map, ps[i]) IN
         OverridesApplied(IF r.ok THEN r.v ELSE map, ps, i + 1)

(* The snapshot put together from the preferences as they are after the   *)
(* overrides instead of before them.                                       *)
AssembleAfterOverrides ==
    /\ status = "running" /\ pc = "assemble"
    /\ IF ~user_stylesheets(args).ok
       THEN /\ args_fail(user_stylesheets(args).e)
            /\ pc' = pc
            /\ UNCHANGED <<new_opts, ret>>
       ELSE /\ new_opts' = AssembleOpts(args, debug_options, locals,
                               OverridesApplied(prefs,
                                                opt_strs(args, "pref"), 1))
            /\ ret' = "add_user_prefs"
            /\ pc' = "so_store"
            /\ UNCHANGED <<out, status>>
    /\ UNCHANGED <<args, user_prefs, debug_options, locals, pref_i, result,
                   last_call, started, effects, prefs, pre, StoreVars,
                   wcursor, n_set, FnVars>>

(* lines 966-1061: the rest of the snapshot is put together and           *)
(* set_options is called with it.                                          *)
Assemble ==
    /\ status = "running" /\ pc = "assemble"
    /\ IF ~user_stylesheets(args).ok
       THEN /\ args_fail(user_stylesheets(args).e)
            /\ pc' = pc
            /\ UNCHANGED <<new_opts, ret>>
       ELSE /\ new_opts' = AssembleOpts(args, debug_options, locals, prefs)
            /\ ret' = "add_user_prefs"
            /\ pc' = "so_store"
            /\ UNCHANGED <<out, status>>
    /\ UNCHANGED <<args, user_prefs, debug_options, locals, pref_i, result,
                   last_call, started, effects, prefs, pre, StoreVars,
                   wcursor, n_set, FnVars>>

(* line 1067 *)
AddUserPrefs ==
    /\ status = "running" /\ pc = "add_user_prefs"
    /\ \E file \in UserPrefFiles :
          /\ user_prefs' = file
          /\ prefs' = add_user_prefs(prefs, file, 1)
    /\ effects' = Append(effects, "add_user_prefs")
    /\ pref_i' = 0
    /\ pc' = "prefs"
    /\ UNCHANGED <<args, debug_options, locals, status, result, last_call,
                   started, out, pre, StoreVars, CallVars, FnVars>>

(* lines 1069-1071: one iteration of the loop over the --pref entries     *)
ApplyPref ==
    /\ status = "running" /\ pc = "prefs"
    /\ pref_i < Len(opt_strs(args, "pref"))
    /\ LET pref == opt_strs(args, "pref")[pref_i + 1]
           r == parse_pref_from_command_line(prefs, pref)
       IN IF r.ok
          THEN /\ prefs' = r.v
               /\ pref_i' = pref_i + 1
               /\ effects' = Append(effects, "pref")
               /\ UNCHANGED <<out, status>>
          ELSE /\ panic(<<"Error setting preference: ">> \o pref)
               /\ UNCHANGED <<prefs, pref_i, effects>>
    /\ UNCHANGED <<pc, args, user_prefs, debug_options, locals, result,
                   last_call, started, pre, StoreVars, CallVars, FnVars>>

(* The bulk preferences loaded behind the --pref loop instead of in front *)
(* of it.                                                                  *)
LayoutThreadsThenUserPrefs ==
    /\ status = "running" /\ pc = "prefs"
    /\ pref_i = Len(opt_strs(args, "pref"))
    /\ LET map == add_user_prefs(prefs, user_prefs, 1) IN
       IF IsSome(locals.layout_threads)
       THEN /\ prefs' = [map EXCEPT !["layout.threads"] =
                            PrefInt(Unwrap(locals.layout_threads))]
            /\ effects' = Append(effects, "layout.threads")
       ELSE prefs' = map /\ UNCHANGED effects
    /\ result' = Some(<<"ChromeProcess">>)
    /\ last_call' = "from_cmdline_args"
    /\ pc' = "idle"
    /\ UNCHANGED <<args, user_prefs, debug_options, locals, pref_i, status,
                   started, out, pre, StoreVars, CallVars, FnVars>>

(* lines 1073-1077 *)
LayoutThreads ==
    /\ status = "running" /\ pc = "prefs"
    /\ pref_i = Len(opt_strs(args, "pref"))
    /\ IF IsSome(locals.layout_threads)
       THEN /\ prefs' = [prefs EXCEPT !["layout.threads"] =
                            PrefInt(Unwrap(locals.layout_threads))]
            /\ effects' = Append(effects, "layout.threads")
       ELSE UNCHANGED <<prefs, effects>>
    /\ result' = Some(<<"ChromeProcess">>)
    /\ last_call' = "from_cmdline_args"
    /\ pc' = "idle"
    /\ UNCHANGED <<args, user_prefs, debug_options, locals, pref_i, status,
                   started, out, pre, StoreVars, CallVars, FnVars>>

(* set_options is called directly (a test re-publishes), line 1092        *)
CallSetOptions ==
    /\ status = "running" /\ pc = "idle"
    /\ n_set < MaxSetCalls
    /\ \E o \in TestSnapshots : new_opts' = o
    /\ n_set' = n_set + 1
    /\ ret' = "idle"
    /\ pc' = "so_store"
    /\ args' = NoArgs
    /\ user_prefs' = << >>
    /\ debug_options' = DebugDefault
    /\ locals' = NoLocals
    /\ pref_i' = 0
    /\ effects' = << >>
    /\ UNCHANGED <<wcursor, status, result, last_call, started, out, prefs,
                   pre, StoreVars, FnVars>>

Next ==
    \/ CallFromCmdlineArgs \/ Parse \/ Help \/ ContentProcess \/ DecodeDebug
    \/ ResolveLocals \/ StoreFlag \/ Assemble
    \/ SetOptionsStore \/ SetOptionsLock \/ SetOptionsWrite \/ SetOptionsUnlock
    \/ AddUserPrefs \/ ApplyPref \/ LayoutThreads
    \/ CallSetOptions

Spec == Init /\ [][Next]_vars

-----------------------------------------------------------------------------
(* The store under concurrent readers: the initial thread re-publishes,   *)
(* reader threads call get(), use the view and drop it.                   *)

NextStore ==
    \/ CallSetOptions
    \/ SetOptionsStore \/ SetOptionsLock \/ SetOptionsWrite \/ SetOptionsUnlock
    \/ \E r \in Readers : Get(r) \/ ReadView(r) \/ DropGuard(r)

SpecStore == Init /\ [][NextStore]_vars

(* The store with threads that keep running: the thread in set_options   *)
(* takes its steps, and gets the write lock if it is free again and      *)
(* again; a reader that holds a guard drops it.  Nothing obliges a       *)
(* reader to call get(), and nothing keeps it from calling get() while   *)
(* set_options waits: std::sync::RwLock leaves the priority between      *)
(* readers and a waiting writer to the operating system.                 *)
StoreFairness ==
    /\ WF_vars(SetOptionsStore)
    /\ SF_vars(SetOptionsLock)
    /\ WF_vars(SetOptionsWrite)
    /\ WF_vars(SetOptionsUnlock)
    /\ \A r \in Readers : WF_vars(DropGuard(r))

SpecStoreFair == Init /\ [][NextStore]_vars /\ StoreFairness

-----------------------------------------------------------------------------
(* The pure functions on bounded inputs                                    *)

MaxDebugLen == 3
MaxStrLen == 4

IdleThread ==
    /\ pc = "idle" /\ args = NoArgs /\ user_prefs = << >>
    /\ debug_options = DebugDefault /\ locals = NoLocals
    /\ new_opts = default_opts /\ ret = "idle" /\ wcursor = 0 /\ pref_i = 0
    /\ status = "running" /\ result = None /\ last_call = "none"
    /\ started = FALSE /\ n_set = 0 /\ out = << >> /\ effects = << >>
    /\ OPTIONS = default_opts /\ MULTIPROCESS = FALSE
    /\ lock = [writer |-> FALSE, readers |-> {}]
    /\ prefs = CHOOSE p \in InitialPrefs :
                  /\ pref_bool(p, "shell.native_titlebar.enabled")
                  /\ pref_bool(p, "gfx.subpixel_text_antialiasing.enabled")
    /\ rd = [r \in Readers |-> IdleReader]
    /\ pre = [OPTIONS |-> default_opts, MULTIPROCESS |-> FALSE,
              prefs |-> prefs]

ThreadVars == <<pc, args, user_prefs, debug_options, locals, new_opts, ret,
                wcursor, pref_i, status, result, last_call, started, n_set,
                out, effects, OPTIONS, MULTIPROCESS, lock, prefs, rd, pre>>

(* Debug strings: tokens and commas, no two tokens side by side.          *)
DebugSymbols == KnownTokens \cup {",", "bogus", "wr-debug"}

RECURSIVE DebugStringsUpTo(_, _)
DebugStringsUpTo(S, n) ==
    IF n = 0 THEN {<< >>}
    ELSE LET shorter == DebugStringsUpTo(S, n - 1)
         IN shorter \cup
            UNION {{Append(q, x) :
                       x \in {y \in S :
                                 Len(q) = 0 \/ q[Len(q)] = "," \/ y = ","}} :
                   q \in shorter}

(* Every token in the short strings, a few tokens in the longer ones.     *)
DebugStrings ==
    DebugStringsUpTo(DebugSymbols, MaxDebugLen)
        \cup DebugStringsUpTo({"msaa", "disable-canvas-aa", "signpost",
                               "help", "bogus", "wr-debug", ","},
                              MaxDebugLen + 2)

InitDebug ==
    /\ IdleThread
    /\ fn_in \in {[self |-> d, debug_string |-> s] :
                    d \in {DebugDefault,
                           [DebugDefault EXCEPT !.gc_profile = TRUE]},
                    s \in DebugStrings}
    /\ fn_out = None

ApplyExtend ==
    /\ fn_out = None
    /\ fn_out' = Some(extend(fn_in.self, fn_in.debug_string))
    /\ UNCHANGED <<ThreadVars, fn_in>>

SpecDebug == InitDebug /\ [][ApplyExtend]_vars

(* Preference values: every short string over an alphabet that reaches   *)
(* each branch, and the examples of the documentation.                    *)
PrefAlphabet == {"4", "2", "0", ".", "-", "+", "e", "a"}

PrefValueStrings ==
    SeqsUpTo(PrefAlphabet, MaxStrLen)
        \cup {StrTrue, StrFalse, <<"3">>, <<"3", ".", "1", "4">>,
              <<"a", "b", "c">>, <<"4", "2", "a", "b", "c">>,
              <<"inf">>, <<"-", "inf">>, <<"NaN">>,
              <<"t", "r", "u", "e", "4">>, <<"T", "r", "u", "e">>}

InitPref ==
    /\ IdleThread
    /\ fn_in \in {None} \cup {Some(s) : s \in PrefValueStrings}
    /\ fn_out = None

ApplyCoerce ==
    /\ fn_out = None
    /\ fn_out' = Some(parse_cli_pref_value(fn_in))
    /\ UNCHANGED <<ThreadVars, fn_in>>

SpecPref == InitPref /\ [][ApplyCoerce]_vars

-----------------------------------------------------------------------------
(* Properties of DebugOptions::extend                                      *)

(* The boolean each token is named after (the fields of DebugOptions and  *)
(* their documentation, lines 249-343).                                    *)
NamedFieldOf ==
    [t \in KnownTokens |->
        CASE t = "help" -> "help"
          [] t = "bubble-widths" -> "bubble_widths"
          [] t = "disable-text-aa" -> "disable_text_aa"
          [] t = "disable-subpixel-aa" -> "disable_subpixel_aa"
          [] t = "disable-canvas-aa" -> "disable_canvas_aa"
          [] t = "dump-style-tree" -> "dump_style_tree"
          [] t = "dump-rule-tree" -> "dump_rule_tree"
          [] t = "dump-flow-tree" -> "dump_flow_tree"
          [] t = "dump-display-list" -> "dump_display_list"
          [] t = "dump-display-list-json" -> "dump_display_list_json"
          [] t = "relayout-event" -> "relayout_event"
          [] t = "profile-script-events" -> "profile_script_events"
          [] t = "profile-heartbeats" -> "profile_heartbeats"
          [] t = "show-fragment-borders" -> "show_fragment_borders"
          [] t = "show-parallel-layout" -> "show_parallel_layout"
          [] t = "trace-layout" -> "trace_layout"
          [] t = "disable-share-style-cache" -> "disable_share_style_cache"
          [] t = "style-sharing-stats" -> "style_sharing_stats"
          [] t = "convert-mouse-to-touch" -> "convert_mouse_to_touch"
          [] t = "replace-surrogates" -> "replace_surrogates"
          [] t = "gc-profile" -> "gc_profile"
          [] t = "load-webfonts-synchronously" -> "load_webfonts_synchronously"
          [] t = "disable-vsync" -> "disable_vsync"
          [] t = "wr-stats" -> "webrender_stats"
          [] t = "wr-record" -> "webrender_record"
          [] t = "wr-no-batch" -> "webrender_disable_batch"
          [] t = "msaa" -> "use_msaa"
          [] t = "full-backtraces" -> "full_backtraces"
          [] t = "precache-shaders" -> "precache_shaders"
          [] t = "signpost" -> "signpost"]

(* The tokens of a debug string, read off its symbols.                    *)
TokensIn(s) == {s[i] : i \in 1..Len(s)} \ {","}

OnlyKnownTokens(s) == TokensIn(s) \subseteq KnownTokens

(* Position of the first symbol that is no comma and no known token: 0    *)
(* when there is none.                                                     *)
FirstUnknownAt(s) ==
    LET bad == {i \in 1..Len(s) : s[i] # "," /\ s[i] \notin KnownTokens}
    IN IF bad = {} THEN 0 ELSE CHOOSE i \in bad : \A j \in bad : i <= j

(* C3: for a debug string of known tokens and commas only, extend on an   *)
(* all-false record returns Ok and leaves true exactly the booleans the   *)
(* tokens are named after.                                                 *)
C3_KnownTokensSetNamedBooleans ==
    (/\ fn_out # None
     /\ fn_in.self = DebugDefault
     /\ OnlyKnownTokens(fn_in.debug_string))
    => /\ Unwrap(fn_out).res.ok
       /\ Unwrap(fn_out).rec =
             [f \in DebugFields |->
                 \E t \in TokensIn(fn_in.debug_string) : NamedFieldOf[t] = f]

(* C4: for a debug string with an unknown token, extend returns Err with  *)
(* the first unknown token; the record holds what it held before plus the *)
(* effect of every known token in front of that token, and nothing of     *)
(* the tokens behind it.                                                   *)
C4_FirstUnknownTokenReported ==
    (fn_out # None /\ FirstUnknownAt(fn_in.debug_string) # 0)
    => LET s == fn_in.debug_string
           k == FirstUnknownAt(s)
           before == {s[i] : i \in 1..(k - 1)} \ {","}
       IN /\ Unwrap(fn_out).res = Err(<<s[k]>>)
          /\ Unwrap(fn_out).rec =
                [f \in DebugFields |->
                    \/ fn_in.self[f]
                    \/ \E t \in before : DebugArms[ArmOf(<<t>>)][2] = f]

(* C4's case: known tokens on both sides of the unknown one.              *)
C4_Witness ==
    /\ fn_out # None
    /\ fn_in.self = DebugDefault
    /\ fn_in.debug_string = <<"msaa", ",", "bogus", ",", "signpost">>

-----------------------------------------------------------------------------
(* Properties of parse_cli_pref_value                                      *)

Unsigned(s) == IF Len(s) > 0 /\ s[1] \in {"+", "-"} THEN Tail(s) ELSE s

\* an optional sign, then one or more digits
IsIntLiteral(s) == Len(Unsigned(s)) > 0 /\ AllDigits(Unsigned(s))

\* digits with at most one point among them, at least one digit
IsMantissa(m) ==
    /\ \A i \in 1..Len(m) : m[i] \in Digits \cup {"."}
    /\ Cardinality({i \in 1..Len(m) : m[i] = "."}) <= 1
    /\ \E i \in 1..Len(m) : m[i] \in Digits

\* nothing, or an 'e' and an integer literal
IsExponent(x) ==
    \/ x = << >>
    \/ /\ x[1] \in {"e", "E"}
       /\ IsIntLiteral(Tail(x))

\* an optional sign, then inf, NaN, or a mantissa and an exponent
IsFloatLiteral(s) ==
    \/ Unsigned(s) \in {<<"inf">>, <<"NaN">>}
    \/ \E n \in 1..Len(Unsigned(s)) :
          /\ IsMantissa(SubSeq(Unsigned(s), 1, n))
          /\ IsExponent(SubSeq(Unsigned(s), n + 1, Len(Unsigned(s))))

(* C5: parse_cli_pref_value returns on every input, and follows the       *)
(* trial order: no value or "true" is Bool(true); "false" is Bool(false); *)
(* else an integer literal is Int; else a float literal is Float; else    *)
(* the string itself is Str.                                               *)
C5_CoercionTrialOrder ==
    fn_out # None =>
        LET v == Unwrap(fn_out) IN
        /\ v.tag \in {"Bool", "Int", "Float", "Str"}
        /\ (fn_in = None \/ fn_in = Some(StrTrue)) => v = PrefBool(TRUE)
        /\ fn_in = Some(StrFalse) => v = PrefBool(FALSE)
        /\ (fn_in # None /\ fn_in \notin {Some(StrTrue), Some(StrFalse)}) =>
              LET s == Unwrap(fn_in) IN
              /\ IsIntLiteral(s) =>
                    v = PrefInt(IF s[1] = "-" THEN 0 - DigitsVal(Unsigned(s))
                                ELSE DigitsVal(Unsigned(s)))
              /\ (~IsIntLiteral(s) /\ IsFloatLiteral(s)) => v.tag = "Float"
              /\ (~IsIntLiteral(s) /\ ~IsFloatLiteral(s)) => v = PrefStr(s)
        /\ fn_in = Some(<<"3">>) => v = PrefInt(3)
        /\ fn_in = Some(<<"4", "2">>) => v = PrefInt(42)
        /\ fn_in = Some(<<"3", ".", "1", "4">>) => v = PrefFloat(<<314, -2>>)
        /\ fn_in = Some(<<"a", "b", "c">>) => v = PrefStr(<<"a", "b", "c">>)

(* C5's case: "42abc" has fallen through to Str.                          *)
C5_Witness ==
    /\ fn_in = Some(<<"4", "2", "a", "b", "c">>)
    /\ fn_out = Some(PrefStr(<<"4", "2", "a", "b", "c">>))

-----------------------------------------------------------------------------
(* Properties of from_cmdline_args                                         *)

(* A from_cmdline_args call is under way, or was the last thing to run,   *)
(* on an argument vector the flag parser accepted.                        *)
Accepted == started /\ args.parse_err = None

HelpPresent == opt_present(args, "h") \/ opt_present(args, "help")

UntouchedSinceEntry ==
    /\ OPTIONS = pre.OPTIONS
    /\ MULTIPROCESS = pre.MULTIPROCESS
    /\ prefs = pre.prefs
    /\ effects = << >>
    /\ debug_options = DebugDefault
    /\ locals = NoLocals
    /\ result = None

(* C1: on an accepted argument vector that has -h/--help, the call never  *)
(* gets past the help test: it ends there with usage on stdout and exit   *)
(* code 0, nothing else is printed, no later step (content-process,       *)
(* debug decoding, typed values, preferences) has run, and the store,     *)
(* the multiprocess flag and the preferences are as they were at entry.   *)
C1_HelpTakesPrecedence ==
    (Accepted /\ HelpPresent) =>
        /\ pc \in {"parse", "help"}
        /\ UntouchedSinceEntry
        /\ status \in {"running", "exit0"}
        /\ status = "running" => out = << >>
        /\ status = "exit0" =>
              pc = "help" /\ out = << <<"stdout", <<"print_usage">>>> >>

(* C1's case: help has ended the process although content-process, an     *)
(* unknown debug token, a malformed -s and an unknown preference name     *)
(* were all given.                                                         *)
C1_Witness ==
    /\ Accepted /\ HelpPresent
    /\ status = "exit0"
    /\ IsSome(opt_str(args, "content-process"))
    /\ opt_strs(args, "Z") = << <<"bogus">> >>
    /\ opt_str(args, "s") = Some(<<"a">>)
    /\ opt_strs(args, "pref") = << <<"no.such.pref", "=", "1">> >>

ContentProcessCase ==
    Accepted /\ ~HelpPresent /\ IsSome(opt_str(args, "content-process"))

(* C2: with content-process C and no help, the call returns               *)
(* ContentProcess(C) with the flag stored as true and multiprocess()      *)
(* true; that store is its only effect: no debug token is decoded, no     *)
(* other argument is validated (nothing is printed, the process goes on), *)
(* no snapshot is published and no preference is written.                 *)
C2_ContentProcessShortCircuit ==
    ContentProcessCase =>
        /\ pc \in {"parse", "help", "content_process", "idle"}
        /\ status = "running" /\ out = << >>
        /\ debug_options = DebugDefault /\ locals = NoLocals
        /\ OPTIONS = pre.OPTIONS /\ prefs = pre.prefs
        /\ pc # "idle" => UntouchedSinceEntry
        /\ pc = "idle" =>
              /\ result = Some(<<"ContentProcess",
                                 Unwrap(opt_str(args, "content-process"))>>)
              /\ last_call = "from_cmdline_args"
              /\ MULTIPROCESS = TRUE /\ multiprocess = TRUE
              /\ effects = <<"MULTIPROCESS.store">>
              /\ OPTIONS.multiprocess = FALSE

(* C2's case: ContentProcess(C) was returned although the debug token,    *)
(* the -s value and the preference name given with it are all invalid.    *)
C2_Witness ==
    /\ ContentProcessCase
    /\ pc = "idle"
    /\ result = Some(<<"ContentProcess", ChannelId>>)
    /\ multiprocess = TRUE
    /\ opt_strs(args, "Z") = << <<"bogus">> >>
    /\ opt_str(args, "s") = Some(<<"a">>)
    /\ opt_strs(args, "pref") = << <<"no.such.pref", "=", "1">> >>

ResolutionGiven == Accepted /\ IsSome(opt_str(args, "resolution"))

ResolutionPieces == Split(Unwrap(opt_str(args, "resolution")), "x")

ReturnedChrome ==
    /\ pc = "idle" /\ status = "running"
    /\ last_call = "from_cmdline_args"
    /\ result = Some(<<"ChromeProcess">>)

(* C6: --resolution WxH with two unsigned integers gives the snapshot the *)
(* window size (W, H); a resolution string without an 'x' ends the        *)
(* process through args_fail (exit code 1 and a message on stderr), never *)
(* with the panic of an index out of bounds.                               *)
C6_ResolutionFailsFast ==
    ResolutionGiven =>
        /\ (/\ ReturnedChrome
            /\ Len(ResolutionPieces) = 2
            /\ \A i \in 1..2 : Len(ResolutionPieces[i]) > 0
                                  /\ AllDigits(ResolutionPieces[i]))
              => OPTIONS.initial_window_size =
                     <<DigitsVal(ResolutionPieces[1]),
                       DigitsVal(ResolutionPieces[2])>>
        /\ (Len(ResolutionPieces) = 1 /\ pc = "locals"
               /\ status # "running")
              => /\ status = "exit1"
                 /\ out # << >> /\ out[Len(out)][1] = "stderr"
        /\ ~(pc = "locals" /\ status = "panic")

(* The fields of two snapshots that differ.                                *)
DiffFields(a, b) == {f \in DOMAIN a : a[f] # b[f]}

(* The fields of the snapshot computed from preferences (lines 989-993).  *)
PrefDerivedFields ==
    {"no_native_titlebar", "enable_subpixel_text_antialiasing"}

(* C7: the snapshot the store holds before the first set_options, i.e.    *)
(* default_opts(), is field by field the one from_cmdline_args publishes  *)
(* for no arguments, hard_fail included.  (The two fields read from the   *)
(* preferences are compared when the preferences have their built-in     *)
(* values.)                                                                *)
C7_DefaultsAreNoArgResolution ==
    (started /\ args = NoArgs /\ ReturnedChrome /\ n_set = 0) =>
        /\ pre.OPTIONS = default_opts
        /\ DiffFields(OPTIONS, default_opts) \subseteq PrefDerivedFields
        /\ (pref_bool(pre.prefs, "shell.native_titlebar.enabled")
              /\ pref_bool(pre.prefs, "gfx.subpixel_text_antialiasing.enabled"))
              => OPTIONS = default_opts

-----------------------------------------------------------------------------
(* Properties of the store                                                 *)

(* The snapshots that were ever handed to the store whole.                *)
Published == {default_opts} \cup TestSnapshots

(* C8: a view returned by get() while set_options runs is one snapshot    *)
(* whole, the one before the call or the one after it, never a mixture    *)
(* of the two, and it still is the same, and still what the store holds,  *)
(* every time the reader looks at it while holding the guard.             *)
C8_NoTornRead ==
    \A r \in Readers :
        rd[r].pc = "holding" =>
            /\ rd[r].first \in Published
            /\ rd[r].last = rd[r].first
            /\ OPTIONS = rd[r].first
            /\ pc # "so_write"

(* C8's case: a reader holds the snapshot an earlier set_options call     *)
(* published, whole, while a second call with another snapshot has stored *)
(* the flag and waits for the write lock.                                  *)
C8_Witness ==
    /\ pc = "so_lock"
    /\ new_opts # OPTIONS
    /\ \E r \in Readers :
          /\ rd[r].pc = "holding"
          /\ rd[r].first \in TestSnapshots
          /\ rd[r].last = rd[r].first

Returned ==
    /\ pc = "idle" /\ status = "running"
    /\ last_call \in {"from_cmdline_args", "set_options"}

ReturnedContent ==
    /\ pc = "idle" /\ status = "running"
    /\ last_call = "from_cmdline_args"
    /\ result # None /\ Unwrap(result)[1] = "ContentProcess"

(* C9 as stated: whenever from_cmdline_args or set_options has returned   *)
(* and no publish is in progress, multiprocess() is the multiprocess      *)
(* field of the stored snapshot.                                           *)
C9_FlagMirrorsSnapshot ==
    Returned => multiprocess = OPTIONS.multiprocess

(* C9, amended: multiprocess() is the multiprocess field of the stored    *)
(* snapshot whenever set_options has returned or from_cmdline_args has    *)
(* returned ChromeProcess; when from_cmdline_args has returned            *)
(* ContentProcess, multiprocess() is true and the stored snapshot is the  *)
(* one from before the call, whose field need not be true.                *)
C9_FlagMirrorsPublishedSnapshot ==
    /\ (Returned /\ last_call = "set_options")
          => multiprocess = OPTIONS.multiprocess
    /\ ReturnedChrome => multiprocess = OPTIONS.multiprocess
    /\ ReturnedContent => multiprocess = TRUE /\ OPTIONS = pre.OPTIONS

(* C9's case: from_cmdline_args has returned ChromeProcess for -M.        *)
C9_Witness ==
    /\ ReturnedChrome
    /\ opt_present(args, "M")
    /\ multiprocess = TRUE
    /\ OPTIONS.multiprocess = TRUE

-----------------------------------------------------------------------------
(* Properties of the preference writes                                     *)

EffectRank(e) ==
    CASE e = "MULTIPROCESS.store" -> 1
      [] e = "OPTIONS.write" -> 2
      [] e = "add_user_prefs" -> 3
      [] e = "pref" -> 4
      [] e = "layout.threads" -> 5

(* The writes of a whole from_cmdline_args call that returns              *)
(* ChromeProcess, in program order.                                       *)
WritesInOrder ==
    (IF opt_present(args, "M") THEN <<"MULTIPROCESS.store">> ELSE << >>)
        \o <<"MULTIPROCESS.store", "OPTIONS.write", "add_user_prefs">>
        \o [i \in 1..Len(opt_strs(args, "pref")) |-> "pref"]
        \o (IF IsSome(locals.layout_threads) THEN <<"layout.threads">>
            ELSE << >>)

PrefOrder ==
    /\ \A i, j \in 1..Len(effects) :
          i < j => EffectRank(effects[i]) <= EffectRank(effects[j])
    /\ ReturnedChrome => effects = WritesInOrder

BulkNames == {user_prefs[i][1] : i \in 1..Len(user_prefs)}

CmdPrefs == opt_strs(args, "pref")

CmdName(i) == Splitn2(CmdPrefs[i], "=")[1]

CmdNames == {CmdName(i)[1] : i \in 1..Len(CmdPrefs)}

(* The value the last --pref entry for name n stands for.                  *)
CmdValue(n) ==
    LET last == CHOOSE i \in 1..Len(CmdPrefs) :
                    /\ CmdName(i) = <<n>>
                    /\ \A j \in 1..Len(CmdPrefs) : CmdName(j) = <<n>> => j <= i
        split == Splitn2(CmdPrefs[last], "=")
    IN parse_cli_pref_value(IF Len(split) >= 2 THEN Some(split[2]) ELSE None)

(* C10 as stated: the writes come in the order publish, add_user_prefs,   *)
(* each --pref, layout-thread override; and every preference name set by  *)
(* both the bulk preferences and a --pref entry ends with the value of    *)
(* the command line.                                                       *)
C10_CommandLinePrefWins ==
    /\ PrefOrder
    /\ ReturnedChrome =>
          \A n \in BulkNames \cap CmdNames : prefs[n] = CmdValue(n)

(* C10, amended: the writes come in that order; every name set by both    *)
(* the bulk preferences and a --pref entry ends with the value of its     *)
(* last --pref entry, except layout.threads when a thread count is in     *)
(* force (-y, or 1 under trace-layout): it ends with that thread count,   *)
(* which is written last.                                                  *)
C10_CommandLinePrefWinsButThreads ==
    /\ PrefOrder
    /\ ReturnedChrome =>
          \A n \in BulkNames \cap CmdNames :
              prefs[n] = IF n = "layout.threads"
                            /\ IsSome(locals.layout_threads)
                         THEN PrefInt(Unwrap(locals.layout_threads))
                         ELSE CmdValue(n)

(* C10's case: the bulk preferences set layout.threads to 8, two --pref   *)
(* entries set it to 4 and then to 2, no thread count is in force: the    *)
(* mapping ends with 2.                                                    *)
C10_Witness ==
    /\ ReturnedChrome
    /\ "layout.threads" \in BulkNames
    /\ CmdPrefs = << <<"layout.threads", "=", "4">>,
                     <<"layout.threads", "=", "2">> >>
    /\ locals.layout_threads = None
    /\ prefs["layout.threads"] = PrefInt(2)


-----------------------------------------------------------------------------
(* Properties of the typed locals                                          *)

ProfilerGiven == opt_present(args, "p")

ProfilerValue == opt_str(args, "p")

Credentials ==
    <<opt_str(args, "profiler-db-name"), opt_str(args, "profiler-db-user"),
      opt_str(args, "profiler-db-pass")>>

(* C11: in the snapshot published for a command line, time_profiling is   *)
(* None without -p; Stdout(5.0) for -p without a value; Stdout(interval)  *)
(* for a value that is a float literal, whether or not it is also a URL   *)
(* or a file name; else DB(url, name, user, pass) for a value that is a   *)
(* URL; else FileName(value).                                              *)
C11_ProfilerRouting ==
    ReturnedChrome =>
        LET t == OPTIONS.time_profiling IN
        /\ ~ProfilerGiven => t = None
        /\ (ProfilerGiven /\ ProfilerValue = None) =>
              t = Some([tag |-> "Stdout", v |-> <<5, 0>>])
        /\ (ProfilerGiven /\ ProfilerValue # None) =>
              LET a == Unwrap(ProfilerValue) IN
              /\ (IsIntLiteral(a) \/ IsFloatLiteral(a)) =>
                    t # None /\ Unwrap(t).tag = "Stdout"
              /\ (~IsIntLiteral(a) /\ ~IsFloatLiteral(a)
                     /\ ServoUrl_parse(a).ok) =>
                    t = Some([tag |-> "DB",
                              v |-> <<ServoUrl_parse(a).v>> \o Credentials])
              /\ (~IsIntLiteral(a) /\ ~IsFloatLiteral(a)
                     /\ ~ServoUrl_parse(a).ok) =>
                    t = Some([tag |-> "FileName", v |-> a])
              /\ a = <<"5">> => t = Some([tag |-> "Stdout", v |-> <<5, 0>>])
              /\ a = <<"0", ".", "5">> =>
                    t = Some([tag |-> "Stdout", v |-> <<5, -1>>])
              /\ a = <<"trace.txt">> =>
                    t = Some([tag |-> "FileName", v |-> <<"trace.txt">>])

(* C11's case: -p http://localhost:8086 with a database name and a        *)
(* password but no user has been routed to the database.                   *)
C11_Witness ==
    /\ ReturnedChrome
    /\ ProfilerValue = Some(<<"http://", "localhost:8086">>)
    /\ OPTIONS.time_profiling =
          Some([tag |-> "DB",
                v |-> <<<<"http://", "localhost:8086">>, Some(<<"servo">>),
                        None, Some(<<"secret">>)>>])


(* The process has ended on an unknown debug token, on a typed value, or  *)
(* on a user stylesheet.                                                   *)
ValidationFailure ==
    /\ Accepted
    /\ status \notin {"running", "exit0"}
    /\ pc \in {"debug", "locals", "assemble"}

NotPublished == \A i \in 1..Len(effects) : effects[i] # "OPTIONS.write"

(* C12: a from_cmdline_args call that ends on an unknown debug token, a   *)
(* malformed argument or an unreadable stylesheet ends with exit code 1   *)
(* before set_options is called: the stored snapshot and the preferences  *)
(* are what they were at entry.                                            *)
C12_FailuresExitBeforePublish ==
    ValidationFailure =>
        /\ status = "exit1"
        /\ NotPublished
        /\ OPTIONS = pre.OPTIONS
        /\ prefs = pre.prefs


(* The process has ended in the loop over the --pref entries.             *)
PrefFailure ==
    /\ Accepted
    /\ status # "running"
    /\ pc = "prefs"

(* C13: a --pref entry whose name the preference schema does not know     *)
(* ends the process like a malformed argument does, with a message on     *)
(* stderr and exit code 1, and adds no key to the preferences.            *)
C13_UnknownPrefExitsWithOne ==
    PrefFailure =>
        /\ CmdName(pref_i + 1) \notin {<<n>> : n \in PrefNames}
        /\ status = "exit1"
        /\ out # << >> /\ out[Len(out)][1] = "stderr"
        /\ DOMAIN prefs = DOMAIN pre.prefs


(* The debug strings of the command line name the token t.                *)
DebugTokenGiven(t) ==
    \E i \in 1..Len(opt_strs(args, "Z")) :
        \E j \in 1..Len(Split(opt_strs(args, "Z")[i], ",")) :
            Split(opt_strs(args, "Z")[i], ",")[j] = <<t>>

(* The running from_cmdline_args call has published its snapshot.         *)
PublishedByCall ==
    /\ Accepted
    /\ pc \in {"add_user_prefs", "prefs"} \/ ReturnedChrome

(* C14: with the trace-layout token on the command line the published     *)
(* snapshot has bubble_inline_sizes_separately = true, and when the call  *)
(* returns layout.threads is 1, whatever bubble-widths, -y and            *)
(* --pref layout.threads=N say.                                            *)
C14_TraceLayoutForcesSequential ==
    (Accepted /\ DebugTokenGiven("trace-layout")) =>
        /\ PublishedByCall => OPTIONS.bubble_inline_sizes_separately = TRUE
        /\ ReturnedChrome => prefs["layout.threads"] = PrefInt(1)

(* C14's case: trace-layout with -y 2 and --pref layout.threads=4, when   *)
(* the bulk preferences say 8.                                             *)
C14_Witness ==
    /\ ReturnedChrome
    /\ DebugTokenGiven("trace-layout")
    /\ ~DebugTokenGiven("bubble-widths")
    /\ opt_str(args, "y") = Some(<<"2">>)
    /\ CmdPrefs = << <<"layout.threads", "=", "4">> >>
    /\ "layout.threads" \in BulkNames
    /\ OPTIONS.bubble_inline_sizes_separately = TRUE
    /\ prefs["layout.threads"] = PrefInt(1)


-----------------------------------------------------------------------------
(* Properties of the debug help                                            *)

(* The process has ended on the help token with the listing on stdout.    *)
DebugHelpPrinted ==
    /\ Accepted
    /\ pc = "debug" /\ status = "exit0"
    /\ out # << >> /\ out[Len(out)][1] = "stdout"

(* The option names of the listing: what follows the usage line.          *)
ListedTokens ==
    LET text == out[Len(out)][2] IN {text[i] : i \in 2..Len(text)}

AcceptedByExtend(t) == extend(DebugDefault, <<t>>).res.ok

(* C15: the listing printed for the help token is the vocabulary of       *)
(* extend: every token extend accepts, other than help, is listed, and    *)
(* every listed token is accepted by extend.                               *)
C15_ListingIsVocabulary ==
    DebugHelpPrinted =>
        /\ \A t \in KnownTokens \ {"help"} : t \in ListedTokens
        /\ \A t \in ListedTokens : AcceptedByExtend(t)


-----------------------------------------------------------------------------
(* Properties of the port flags                                            *)

PortFlags ==
    << <<"remote-debugging-port", "debugger_port", 2794>>,
       <<"devtools", "devtools_port", 6000>>,
       <<"webdriver", "webdriver_port", 7000>> >>

(* An optional '+', then digits that make a number below 2^16.            *)
IsPort(s) ==
    LET u == IF Len(s) > 0 /\ s[1] = "+" THEN Tail(s) ELSE s IN
    Len(u) > 0 /\ AllDigits(u) /\ DigitsVal(u) <= 65535

PortOf(s) == DigitsVal(IF s[1] = "+" THEN Tail(s) ELSE s)

BadPortGiven ==
    \E k \in 1..Len(PortFlags) :
        /\ opt_present(args, PortFlags[k][1])
        /\ IsSome(opt_vals(args, PortFlags[k][1])[1])
        /\ ~IsPort(Unwrap(opt_vals(args, PortFlags[k][1])[1]))

(* C16: for remote-debugging-port, devtools and webdriver the published   *)
(* snapshot has None when the flag is absent, Some(2794), Some(6000),     *)
(* Some(7000) when it is given bare, Some(port) when its value is a       *)
(* 16-bit port; a value that is not a port ends the process with exit     *)
(* code 1 before anything is published.                                    *)
C16_PortFlags ==
    Accepted =>
        /\ ReturnedChrome =>
              \A k \in 1..Len(PortFlags) :
                  LET occ == opt_vals(args, PortFlags[k][1])
                      port == OPTIONS[PortFlags[k][2]]
                  IN /\ occ = << >> => port = None
                     /\ occ = Flag => port = Some(PortFlags[k][3])
                     /\ (occ # << >> /\ occ # Flag) =>
                           /\ IsPort(Unwrap(occ[1]))
                           /\ port = Some(PortOf(Unwrap(occ[1])))
        /\ BadPortGiven =>
              /\ pc \in {"parse", "help", "content_process", "debug",
                          "locals"}
              /\ (pc = "locals" /\ status # "running") => status = "exit1"
              /\ NotPublished

(* C16's case: a bare remote-debugging-port, devtools 80 and webdriver    *)
(* 65535.                                                                  *)
C16_Witness ==
    /\ ReturnedChrome
    /\ opt_vals(args, "remote-debugging-port") = Flag
    /\ OPTIONS.debugger_port = Some(2794)
    /\ OPTIONS.devtools_port = Some(80)
    /\ OPTIONS.webdriver_port = Some(65535)


-----------------------------------------------------------------------------
(* Properties of the presence flags                                        *)

PresenceFlags ==
    << <<"z", "headless">>, <<"M", "multiprocess">>, <<"S", "sandbox">>,
       <<"x", "exit_after_load">>, <<"b", "no_native_titlebar">>,
       <<"unminify-js", "unminify_js">>, <<"print-pwm", "print_pwm">>,
       <<"clean-shutdown", "clean_shutdown">> >>

(* C17 as stated: in the published snapshot each of the eight booleans is *)
(* true exactly when its flag is on the command line, whatever the other  *)
(* flags and the preferences are.                                          *)
C17_PresenceFlagsOneToOne ==
    ReturnedChrome =>
        \A k \in 1..Len(PresenceFlags) :
            OPTIONS[PresenceFlags[k][2]] = opt_present(args, PresenceFlags[k][1])

(* C17, amended: headless, multiprocess, sandbox, exit_after_load,        *)
(* unminify_js, print_pwm and clean_shutdown are true exactly when their  *)
(* flag is present; no_native_titlebar is true exactly when -b is present *)
(* or the preference shell.native_titlebar.enabled was false when the     *)
(* call was made.                                                          *)
C17_PresenceFlagsButTitlebar ==
    ReturnedChrome =>
        \A k \in 1..Len(PresenceFlags) :
            OPTIONS[PresenceFlags[k][2]] =
                IF PresenceFlags[k][2] = "no_native_titlebar"
                THEN opt_present(args, "b")
                        \/ pre.prefs["shell.native_titlebar.enabled"]
                               = PrefBool(FALSE)
                ELSE opt_present(args, PresenceFlags[k][1])

(* C17's case: -z and --print-pwm without -b, with the titlebar           *)
(* preference false: no_native_titlebar is true without its flag.         *)
C17_Witness ==
    /\ ReturnedChrome
    /\ opt_present(args, "z") /\ opt_present(args, "print-pwm")
    /\ ~opt_present(args, "b") /\ ~opt_present(args, "M")
    /\ pre.prefs["shell.native_titlebar.enabled"] = PrefBool(FALSE)
    /\ OPTIONS.headless /\ OPTIONS.print_pwm /\ ~OPTIONS.multiprocess
    /\ OPTIONS.no_native_titlebar


-----------------------------------------------------------------------------
(* Properties of the positional URL                                        *)

FreeGiven == Accepted /\ args.free # << >>

FreeArg == args.free[1]

HasScheme(u) == Len(u) > 0 /\ u[1] \in Schemes

(* Neither an absolute URL nor a relative path: a scheme with a malformed *)
(* or missing host.                                                        *)
Unresolvable(u) ==
    HasScheme(u) /\ (u = <<"http://">> \/ \E i \in 1..Len(u) : u[i] = "[")

IsAbsolutePath(u) == Len(u) > 0 /\ u[1] = "/"

Warned == \E i \in 1..Len(out) : out[i][1] = "log"

(* Nothing on the command line but the URL and -z.                        *)
UrlAlone == \A l \in LongNames \ {"headless"} : args.opts[l] = << >>

(* C18 as stated: a positional argument that is neither an absolute URL  *)
(* nor a path is not fatal: the process goes on, a warning is logged, the *)
(* snapshot is published with url = None and the call returns            *)
(* ChromeProcess; every argument without a scheme becomes a file URL      *)
(* under the current directory.                                            *)
C18_UrlFailureIsNotFatalUnderCwd ==
    FreeGiven =>
        /\ UrlAlone => status = "running"
        /\ (pc = "locals" /\ status # "running") => FirstFailure(args) # 0
        /\ ReturnedChrome =>
              /\ Unresolvable(FreeArg) => OPTIONS.url = None /\ Warned
              /\ ~HasScheme(FreeArg) =>
                    /\ ~Warned
                    /\ OPTIONS.url = Some(<<"file://">> \o cwd \o FreeArg)

(* C18, amended: the same, except that an argument without a scheme is    *)
(* joined to the current directory as a path: a relative path becomes a   *)
(* file URL under the current directory, an absolute path becomes the     *)
(* file URL of that path; an absolute URL is taken as it is.              *)
C18_UrlFailureIsNotFatal ==
    FreeGiven =>
        /\ UrlAlone => status = "running"
        /\ (pc = "locals" /\ status # "running") => FirstFailure(args) # 0
        /\ ReturnedChrome =>
              /\ Unresolvable(FreeArg) => OPTIONS.url = None /\ Warned
              /\ ~HasScheme(FreeArg) =>
                    /\ ~Warned
                    /\ OPTIONS.url =
                          Some(<<"file://">> \o
                               (IF IsAbsolutePath(FreeArg) THEN FreeArg
                                ELSE cwd \o FreeArg))
              /\ (HasScheme(FreeArg) /\ ~Unresolvable(FreeArg)) =>
                    OPTIONS.url = Some(FreeArg) /\ ~Warned

(* C18's case: http://[::1 has been given and the call has returned with  *)
(* no URL in the snapshot.                                                 *)
C18_Witness ==
    /\ FreeGiven /\ ReturnedChrome
    /\ FreeArg = <<"http://", "[", ":", ":", "1">>
    /\ OPTIONS.url = None
    /\ OPTIONS.headless
    /\ Warned


-----------------------------------------------------------------------------
(* Progress of the store                                                   *)

InSetOptions == pc \in {"so_store", "so_lock", "so_write"}

WriteLocked == lock.writer

(* C19: when every reader eventually drops its guard, every set_options   *)
(* call eventually returns, and the write lock that keeps get() waiting   *)
(* is eventually released.                                                 *)
C19_NoStarvation ==
    /\ InSetOptions ~> pc = "idle"
    /\ WriteLocked ~> ~WriteLocked


-----------------------------------------------------------------------------
(* Properties of repeated set_options                                      *)

(* Only set_options has been called, and no call is running.              *)
BetweenSetOptions == ~started /\ pc = "idle"

(* C20: after any sequence of set_options calls of one thread the store   *)
(* holds exactly the snapshot of the last call, every field of it, and    *)
(* multiprocess() is its multiprocess field; before the first call the    *)
(* store holds default_opts() and multiprocess() is false.  A view taken  *)
(* by get() is that snapshot.                                              *)
C20_LastSetOptionsWins ==
    BetweenSetOptions =>
        /\ n_set = 0 => OPTIONS = default_opts /\ multiprocess = FALSE
        /\ n_set > 0 =>
              /\ OPTIONS = new_opts
              /\ multiprocess = new_opts.multiprocess
        /\ \A r \in Readers :
              rd[r].pc = "holding" =>
                  rd[r].last = (IF n_set = 0 THEN default_opts ELSE new_opts)

(* C20's case: after two calls a reader holds the snapshot of the second  *)
(* call, which has multiprocess = false, and the flag is false again.     *)
C20_Witness ==
    /\ BetweenSetOptions
    /\ n_set = 2
    /\ new_opts.print_pwm /\ ~new_opts.multiprocess
    /\ OPTIONS = new_opts
    /\ multiprocess = FALSE
    /\ \E r \in Readers : rd[r].pc = "holding" /\ rd[r].last = new_opts


-----------------------------------------------------------------------------
(* Properties of the fields read from the preferences                      *)

SnapshotPrefNames ==
    {"shell.native_titlebar.enabled", "gfx.subpixel_text_antialiasing.enabled"}

(* The two fields of snapshot o are what lines 989-993 give for the       *)
(* preference map `map`.                                                   *)
ReadFrom(o, map) ==
    /\ o.no_native_titlebar =
          (opt_present(args, "b")
              \/ map["shell.native_titlebar.enabled"] = PrefBool(FALSE))
    /\ o.enable_subpixel_text_antialiasing =
          (~DebugTokenGiven("disable-subpixel-aa")
              /\ map["gfx.subpixel_text_antialiasing.enabled"]
                     = PrefBool(TRUE))

(* The running from_cmdline_args call is publishing its snapshot.         *)
PublishingByCall ==
    /\ Accepted
    /\ pc \in {"so_store", "so_lock", "so_write"}
    /\ ret = "add_user_prefs"

(* The running from_cmdline_args call has not yet called set_options.     *)
BeforePublish ==
    /\ Accepted
    /\ pc \in {"parse", "help", "content_process", "debug", "locals",
                "store_flag", "assemble"}

=============================================================================
